---------------------------- MODULE Spec2Model ----------------------------
(***************************************************************************)
(* Verification model of esportscalendar (feimaomiao/esportscalendar).     *)
(*                                                                         *)
(* Three specifications share one clock:                                   *)
(*   SpecFetch : the match resolver fetchMatches and its two SQL queries   *)
(*   Spec      : the HTTP handlers (export, calendar, option lists) over   *)
(*               the url_mappings table and the Redis cache                *)
(*   SpecCache : the file-backed ICSCache (lock, map, LRU list, files)     *)
(*               and the RedisCache operations called directly             *)
(***************************************************************************)
EXTENDS Integers, Sequences, FiniteSets, TLC

VARIABLES
    now,            \* the wall clock: SQL NOW() / CURRENT_TIMESTAMP / time.Now()
    \* ---- fetchMatches (SpecFetch) ----
    store,          \* rows of the matches table (joined projection)
    filter,         \* gameIDs, leagueIDs, teamIDs, maxTier passed to fetchMatches
    fpc,            \* position inside fetchMatches
    futureMatches,  \* rows returned by GetFutureMatchesBySelections (match ids)
    pastMatches,    \* rows returned by GetPastMatchesBySelections (match ids)
    matches,        \* the returned list (match ids)
    showingPast,    \* the returned usingPastFallback flag
    fetchErr,       \* TRUE when fetchMatches returned an error
    queries,        \* number of data-source queries issued by this call
    nowFuture,      \* value of NOW() when the future query ran
    nowPast,        \* value of NOW() when the past query ran
    \* ---- HTTP handlers (Spec) ----
    server,         \* "boot", "running", or "crashed" (InitMiddleHandler panicked)
    initErr,        \* what failed inside InitMiddleHandler: "none", "db", "redis"
    RedisCache,     \* Middleware.RedisCache: "nil" or "client"
    url_mappings,   \* rows of the url_mappings table, in insertion order
    redis,          \* the Redis keyspace: key -> [val, exp]
    wpc,            \* per request goroutine: position inside its handler
    wloc,           \* per request goroutine: the handler's locals
    resp,           \* per request goroutine: the response it wrote last
    nreq,           \* number of requests accepted so far
    lookups,        \* per hash: calendar requests that executed the count update
    updFails,       \* per hash: how many of those updates returned an error
    cacheOps,       \* number of Redis commands issued by the handlers
    \* ---- ICSCache and RedisCache called directly (SpecCache) ----
    muWriter,       \* ICSCache.mu: the goroutine holding the write lock, 0 if none
    entries,        \* ICSCache.entries: hash -> entry (an index of objs)
    lruList,        \* ICSCache.lruList: the entries' elements, front first
    objs,           \* every cacheEntry allocated so far: [hash, lastUpdate]
    files,          \* the cache directory: hash -> content of <hash>.ics
    cpc,            \* per goroutine: position inside Get / Set
    cloc,           \* per goroutine: locals and result of its cache call
    cops,           \* number of cache calls started so far
    settled,        \* per hash: the value of the last Set, while nothing disturbed it
    everSet,        \* per hash: a Set of it was ever called
    recency,        \* cached hashes by most recent Set or Get hit, latest first
    unguarded,      \* entry fields that were read with no lock held
    readDuringWrite,\* a Get read an entry while a Set of that entry held the lock
    rsettled,       \* per Redis key: value and expiry of the last Set, while undisturbed
    rlast,          \* the last Redis read: its key, result and what was settled
    \* ---- functions called on their own (SpecText) ----
    textCase,       \* the function the run calls
    textArgs,       \* the arguments of the calls
    textOut,        \* the results returned so far, by call
    \* ---- main: serving, signal, shutdown, cleanup (SpecMain) ----
    mpc,            \* position of the main goroutine
    listener,       \* the goroutine running ListenAndServe
    quit,           \* number of signals buffered in the quit channel
    inflight,       \* requests being served
    elapsed,        \* seconds since the shutdown context was created
    dbPool,         \* Middleware.DB: "open" or "closed"
    cacheClient,    \* the Redis client: "open", "closed" or "none"
    signalled,      \* a SIGINT or SIGTERM was delivered
    shutdownDone    \* how server.Shutdown returned: "", "drained" or "deadline"

fetchVars == <<store, filter, fpc, futureMatches, pastMatches, matches,
               showingPast, fetchErr, queries, nowFuture, nowPast>>

webVars == <<server, initErr, RedisCache, url_mappings, redis, wpc, wloc, resp, nreq,
             lookups, updFails, cacheOps>>

webRest == <<server, initErr, RedisCache, url_mappings, wpc, wloc, resp, nreq,
             lookups, updFails, cacheOps>>

cacheVars == <<muWriter, entries, lruList, objs, files, cpc, cloc, cops, settled,
               everSet, recency, unguarded, readDuringWrite, rsettled, rlast>>

textVars == <<textCase, textArgs, textOut>>

mainVars == <<mpc, listener, quit, inflight, elapsed, dbPool, cacheClient, signalled,
              shutdownDone>>

restVars == <<textVars, mainVars>>

vars == <<now, fetchVars, webVars, cacheVars, restVars>>

(***************************************************************************)
(* Bounds of the model.                                                    *)
(***************************************************************************)
NumMatches == 12
MaxTierInput == 2

MaxTime == NumMatches + 1
Times == 0..MaxTime

(***************************************************************************)
(* Generic helpers.                                                        *)
(***************************************************************************)
Min(a, b) == IF a < b THEN a ELSE b

Range(s) == {s[i] : i \in 1..Len(s)}

Take(s, n) == SubSeq(s, 1, Min(n, Len(s)))

(***************************************************************************)
(* The matches table.  expected_start_time and tournaments.tier are        *)
(* nullable: a row carries a validity flag beside the value.               *)
(***************************************************************************)
Schedules == {"distinct", "pairs", "burst", "example"}

StartOf(sched, i) ==
    CASE sched = "distinct" -> i
      [] sched = "pairs"    -> (i + 1) \div 2
      [] sched = "spread"   -> i * 100
      [] OTHER              -> 3

MatchRow(sched, i) ==
    [id         |-> i,
     startValid |-> TRUE,
     start      |-> StartOf(sched, i),
     game       |-> IF i % 6 = 0 THEN 2 ELSE 1,
     league     |-> 1 + (i % 2),
     team1      |-> 1 + (i % 3),
     team2      |-> 1 + ((i + 1) % 3),
     tierValid  |-> (i % 4) # 0,
     tier       |-> i % 4]

\* a match that has no scheduled start time yet
UnscheduledRow ==
    [id |-> 0, startValid |-> FALSE, start |-> 0, game |-> 1, league |-> 1,
     team1 |-> 1, team2 |-> 2, tierValid |-> TRUE, tier |-> 1]

\* the only match of the store "example": game 1, league 1, teams 1 and 2,
\* tier 1, starting after every time a call is made at
ExampleRow ==
    [id |-> 1, startValid |-> TRUE, start |-> MaxTime + 1, game |-> 1, league |-> 1,
     team1 |-> 1, team2 |-> 2, tierValid |-> TRUE, tier |-> 1]

StoreOf(sched) ==
    IF sched = "example" THEN {ExampleRow}
    ELSE {MatchRow(sched, i) : i \in 1..NumMatches} \cup {UnscheduledRow}

ById(id) == CHOOSE m \in store : m.id = id

Filters ==
    [games   : SUBSET {1, 2},
     leagues : SUBSET {1, 2},
     teams   : SUBSET {1, 3},
     maxTier : 1..MaxTierInput]

(***************************************************************************)
(* SQL.  COALESCE(tour.tier, 0); the shared WHERE predicate; ORDER BY with *)
(* an unspecified order among rows of equal start time (tieAsc picks one   *)
(* of two orders the planner may produce); LIMIT.                          *)
(***************************************************************************)
Coalesce(valid, v, dflt) == IF valid THEN v ELSE dflt

\* mutant: the tier ceiling is not applied to the matches of a league
SelectedIgnoringTier(m, f) ==
    /\ m.game \in f.games
    /\ \/ (m.team1 \in f.teams \/ m.team2 \in f.teams)
       \/ m.league \in f.leagues

SelectedBy(m, f) ==
    /\ m.game \in f.games
    /\ \/ (m.team1 \in f.teams \/ m.team2 \in f.teams)
       \/ (m.league \in f.leagues /\ Coalesce(m.tierValid, m.tier, 0) <= f.maxTier)

Precedes(a, b, asc, tieAsc) ==
    \/ (IF asc THEN a.start < b.start ELSE a.start > b.start)
    \/ (a.start = b.start /\ (IF tieAsc THEN a.id <= b.id ELSE a.id >= b.id))

RECURSIVE OrderBy(_, _, _)
OrderBy(rows, asc, tieAsc) ==
    IF rows = {} THEN <<>>
    ELSE LET first == CHOOSE a \in rows : \A b \in rows : Precedes(a, b, asc, tieAsc)
         IN  <<first.id>> \o OrderBy(rows \ {first}, asc, tieAsc)

FutureRows(t, f) ==
    {m \in store : m.startValid /\ m.start >= t /\ SelectedBy(m, f)}

PastRows(t, f) ==
    {m \in store : m.startValid /\ m.start < t /\ SelectedBy(m, f)}

\* mutant: the LIMIT clause is dropped
GetFutureMatchesUnlimited(t, f, limit, tieAsc) ==
    OrderBy(FutureRows(t, f), TRUE, tieAsc)

GetFutureMatchesBySelections(t, f, limit, tieAsc) ==
    Take(OrderBy(FutureRows(t, f), TRUE, tieAsc), limit)

\* mutant: the inner query orders ascending, so the limit keeps the oldest
GetOldestPastMatches(t, f, limit, tieAsc) ==
    Take(OrderBy(PastRows(t, f), TRUE, tieAsc), limit)

GetPastMatchesBySelections(t, f, limit, tieAsc) ==
    LET recent == Take(OrderBy(PastRows(t, f), FALSE, tieAsc), limit)
    IN  OrderBy({ById(id) : id \in Range(recent)}, TRUE, tieAsc)

(***************************************************************************)
(* fetchMatches.  The two queries are separate round trips to the data     *)
(* source, so the clock may advance between them.                          *)
(***************************************************************************)
totalLimit == 10

\* mutant: the early return is taken only when the whole filter is empty
NoIDsAtAll ==
    Cardinality(filter.games) = 0 /\ Cardinality(filter.leagues) = 0
        /\ Cardinality(filter.teams) = 0

NoGameIDs == Cardinality(filter.games) = 0

FetchReturn(ms, sp, err) ==
    /\ matches' = ms
    /\ showingPast' = sp
    /\ fetchErr' = err
    /\ fpc' = "done"

\* mutant: the flag is raised whenever no future match was found
ShowingPastNoFuture(future, past) == Len(future) = 0

ShowingPast(future, past) == Len(future) = 0 /\ Len(past) > 0

Combine(past, future) == past \o future

\* len(gameIDs) == 0: return the nil list at once
FetchNoGames ==
    /\ fpc = "call"
    /\ NoGameIDs
    /\ FetchReturn(<<>>, FALSE, FALSE)
    /\ UNCHANGED <<now, store, filter, futureMatches, pastMatches, queries,
                   nowFuture, nowPast, webVars, cacheVars, restVars>>

\* the future query; on error return (nil, false, err); with no remaining
\* slot the result is combined and returned without a past query
FutureQuery ==
    /\ fpc = "call"
    /\ ~NoGameIDs
    /\ queries' = queries + 1
    /\ nowFuture' = now
    /\ \E failed \in BOOLEAN, tieAsc \in BOOLEAN :
         IF failed
         THEN /\ FetchReturn(<<>>, FALSE, TRUE)
              /\ UNCHANGED futureMatches
         ELSE LET future == GetFutureMatchesBySelections(now, filter, totalLimit, tieAsc)
                  remainingSlots == totalLimit - Len(future)
              IN  /\ futureMatches' = future
                  /\ IF remainingSlots > 0
                     THEN /\ fpc' = "past"
                          /\ UNCHANGED <<matches, showingPast, fetchErr>>
                     ELSE FetchReturn(Combine(<<>>, future),
                                      ShowingPast(future, <<>>), FALSE)
    /\ UNCHANGED <<now, store, filter, pastMatches, nowPast, webVars, cacheVars, restVars>>

\* the past query, limited to the remaining slots, then the combination
PastQuery ==
    /\ fpc = "past"
    /\ queries' = queries + 1
    /\ nowPast' = now
    /\ \E failed \in BOOLEAN, tieAsc \in BOOLEAN :
         IF failed
         THEN /\ FetchReturn(<<>>, FALSE, TRUE)
              /\ UNCHANGED pastMatches
         ELSE LET past == GetPastMatchesBySelections(now, filter,
                              totalLimit - Len(futureMatches), tieAsc)
              IN  /\ pastMatches' = past
                  /\ FetchReturn(Combine(past, futureMatches),
                                 ShowingPast(futureMatches, past), FALSE)
    /\ UNCHANGED <<now, store, filter, futureMatches, nowFuture, webVars, cacheVars, restVars>>

\* time passes while a call is in progress
FetchTick ==
    /\ fpc # "done"
    /\ now < MaxTime
    /\ now' = now + 1
    /\ UNCHANGED <<fetchVars, restVars, webVars, cacheVars>>

FetchCall ==
    /\ now \in Times
    /\ store \in {StoreOf(s) : s \in Schedules}
    /\ filter \in Filters
    /\ fpc = "call"
    /\ futureMatches = <<>>
    /\ pastMatches = <<>>
    /\ matches = <<>>
    /\ showingPast = FALSE
    /\ fetchErr = FALSE
    /\ queries = 0
    /\ nowFuture = 0
    /\ nowPast = 0

FetchNext == FetchNoGames \/ FutureQuery \/ PastQuery \/ FetchTick

(***************************************************************************)
(* JSON.  A JSON value is a record whose only field names its type:        *)
(*   [bool |-> b]   [num2 |-> k] (the number k/2)   [str |-> s]            *)
(*   [arr |-> <<v1, ...>>]       [obj |-> f] (f a function on key strings) *)
(* A raw request body lists its members in the order written.  Decoding    *)
(* into map[string]any forgets that order (the last duplicate wins);       *)
(* json.Marshal of the map writes the members sorted by key.               *)
(***************************************************************************)
Num(k) == [num2 |-> 2 * k]

Arr(s) == [arr |-> s]

\* byte order of the keys the model uses
KeyOrder == <<"1", "2", "hideScores", "selections", "x">>

GameEntry(leagues, teams, tier) ==
    [obj |-> [leagues |-> Arr(leagues), teams |-> Arr(teams), maxTier |-> Num(tier)]]

EntryA == GameEntry(<<Num(1)>>, <<>>, 1)

EntryB == GameEntry(<<Num(2)>>, <<Num(3)>>, 2)

SelectionsA == [obj |-> [k \in {"1"} |-> EntryA]]

\* spaces: the number of whitespace bytes between the tokens of the body
RawBodies ==
    { [valid |-> FALSE, spaces |-> 0, members |-> <<>>],
      [valid |-> TRUE,  spaces |-> 0, members |-> <<>>],
      [valid |-> TRUE,  spaces |-> 0, members |-> << <<"1", EntryA>> >>],
      [valid |-> TRUE,  spaces |-> 1, members |-> << <<"2", EntryB>>, <<"1", EntryA>> >>],
      [valid |-> TRUE,  spaces |-> 0, members |-> << <<"selections", SelectionsA>>,
                                                     <<"hideScores", [bool |-> TRUE]>> >>],
      [valid |-> TRUE,  spaces |-> 1, members |-> << <<"hideScores", [bool |-> TRUE]>>,
                                                     <<"selections", SelectionsA>> >>] }

\* c.ShouldBindJSON(&requestBody) / json.Unmarshal into map[string]any
DecodeJSON(members) ==
    [k \in {members[i][1] : i \in 1..Len(members)} |->
        LET last == CHOOSE i \in 1..Len(members) :
                        /\ members[i][1] = k
                        /\ \A j \in (i + 1)..Len(members) : members[j][1] # k
        IN  members[last][2]]

SortedKeys(f) == SelectSeq(KeyOrder, LAMBDA k : k \in DOMAIN f)

\* json.Marshal(map[string]any): the members in key order
Marshal(f) == [i \in 1..Len(SortedKeys(f)) |-> <<SortedKeys(f)[i], f[SortedKeys(f)[i]]>>]

(***************************************************************************)
(* generateHash: sha256 of the canonical bytes, hex encoded, cut to 16     *)
(* characters.  The digest is modelled by a position-weighted checksum of  *)
(* the canonical value; hex digits are the numbers 0..15.                  *)
(***************************************************************************)
HashLen == 16

KeyCode(k) == CHOOSE i \in 1..Len(KeyOrder) : KeyOrder[i] = k

FieldCode(k) ==
    CASE k = "leagues" -> 3
      [] k = "maxTier" -> 5
      [] k = "teams"   -> 7
      [] OTHER         -> 10 + KeyCode(k)

FieldOrder == <<"1", "2", "hideScores", "leagues", "maxTier", "selections", "teams", "x">>

SetToSortedFields(ks) == SelectSeq(FieldOrder, LAMBDA k : k \in ks)

RECURSIVE SumSeq(_)
SumSeq(s) == IF s = <<>> THEN 0 ELSE Head(s) + SumSeq(Tail(s))

DigestMod == 65521

RECURSIVE Digest(_)
Digest(v) ==
    CASE "bool" \in DOMAIN v -> IF v.bool THEN 2 ELSE 1
      [] "num2" \in DOMAIN v -> 3 + v.num2
      [] "str"  \in DOMAIN v -> 29
      [] "arr"  \in DOMAIN v ->
            (31 + SumSeq([i \in 1..Len(v.arr) |-> (i + 1) * Digest(v.arr[i])]))
                % DigestMod
      [] "obj"  \in DOMAIN v ->
            LET ks == SetToSortedFields(DOMAIN v.obj)
            IN  (37 + SumSeq([i \in 1..Len(ks) |->
                               (i + 2) * (FieldCode(ks[i]) + 41 * Digest(v.obj[ks[i]]))]))
                    % DigestMod
      [] OTHER -> 0

Sum256(data) ==
    LET d == SumSeq([i \in 1..Len(data) |->
                       (i + 4) * (FieldCode(data[i][1]) + 43 * Digest(data[i][2]))])
             % DigestMod
    IN  [i \in 1..32 |-> (d * (2 * i + 1) + i * i + 7) % 256]

\* hex.EncodeToString: two digits for every byte
EncodeToString(bytes) ==
    [i \in 1..(2 * Len(bytes)) |->
        IF i % 2 = 1 THEN bytes[(i + 1) \div 2] \div 16 ELSE bytes[i \div 2] % 16]

generateHash(data) == SubSeq(EncodeToString(Sum256(data)), 1, HashLen)

(***************************************************************************)
(* parseSelections.  The loop ranges over a Go map, so ids are collected   *)
(* in no fixed order; the queries use them with = ANY(...), as sets.       *)
(***************************************************************************)
\* strconv.ParseInt(s, 10, 32) on the keys of the model
ParseInt(s) ==
    CASE s = "1" -> [ok |-> TRUE,  n |-> 1]
      [] s = "2" -> [ok |-> TRUE,  n |-> 2]
      [] OTHER   -> [ok |-> FALSE, n |-> 0]

\* int32(f) for a float64 f = k/2: truncation toward zero
Int32(k) == IF k >= 0 THEN k \div 2 ELSE -((-k) \div 2)

IsObj(v) == "obj" \in DOMAIN v

\* selectionMap[field].([]any), each element kept when it is a float64
IDsOf(entry, field) ==
    IF IsObj(entry) /\ field \in DOMAIN entry.obj /\ "arr" \in DOMAIN entry.obj[field]
    THEN LET a == entry.obj[field].arr
         IN  {Int32(a[i].num2) : i \in {j \in 1..Len(a) : "num2" \in DOMAIN a[j]}}
    ELSE {}

TiersOf(selections) ==
    {Int32(selections[k].obj["maxTier"].num2) :
        k \in {g \in DOMAIN selections :
                 /\ ParseInt(g).ok
                 /\ IsObj(selections[g])
                 /\ "maxTier" \in DOMAIN selections[g].obj
                 /\ "num2" \in DOMAIN selections[g].obj["maxTier"]}}

Max(S, floor) == CHOOSE m \in S \cup {floor} : \A x \in S \cup {floor} : x <= m

parseSelections(selections) ==
    LET gameKeys == {k \in DOMAIN selections : ParseInt(k).ok}
    IN  [games   |-> {ParseInt(k).n : k \in gameKeys},
         leagues |-> UNION {IDsOf(selections[k], "leagues") : k \in gameKeys},
         teams   |-> UNION {IDsOf(selections[k], "teams") : k \in gameKeys},
         maxTier |-> Max(TiersOf(selections), 1)]

\* storedData["hideScores"].(bool), default false
HideScoresOf(data) ==
    IF "hideScores" \in DOMAIN data /\ "bool" \in DOMAIN data["hideScores"]
    THEN data["hideScores"].bool
    ELSE FALSE

\* mutant: only the wrapped shape is read
SelectionsOfWrapperOnly(data) ==
    IF "selections" \in DOMAIN data /\ IsObj(data["selections"])
    THEN data["selections"].obj
    ELSE <<>>

\* storedData["selections"].(map[string]any), else the whole object
SelectionsOf(data) ==
    IF "selections" \in DOMAIN data /\ IsObj(data["selections"])
    THEN data["selections"].obj
    ELSE data

(***************************************************************************)
(* The url_mappings table and the calendar query.  The clock unit of the   *)
(* model is 30 minutes.                                                    *)
(***************************************************************************)
CalendarWindow == 672

NewRow(h, v, t) ==
    [hashed_key |-> h, value_list |-> v, access_count |-> 0,
     created_at |-> t, accessed_at |-> t]

HasRow(rows, h) == \E i \in 1..Len(rows) : rows[i].hashed_key = h

\* mutant: the ON CONFLICT clause is dropped and the key is not unique
InsertWithoutConflictClause(rows, h, v, t) == Append(rows, NewRow(h, v, t))

\* mutant: ON CONFLICT (hashed_key) DO UPDATE, the row is written again
InsertOrReplace(rows, h, v, t) ==
    IF HasRow(rows, h)
    THEN [i \in 1..Len(rows) |-> IF rows[i].hashed_key = h THEN NewRow(h, v, t) ELSE rows[i]]
    ELSE Append(rows, NewRow(h, v, t))

InsertURLMapping(rows, h, v, t) ==
    IF HasRow(rows, h) THEN rows ELSE Append(rows, NewRow(h, v, t))

GetURLMapping(rows, h) == SelectSeq(rows, LAMBDA r : r.hashed_key = h)

\* mutant: the count is written from a constant instead of incremented
SetAccessCountToOne(rows, h, t) ==
    [i \in 1..Len(rows) |->
        IF rows[i].hashed_key = h
        THEN [rows[i] EXCEPT !.access_count = 1, !.accessed_at = t]
        ELSE rows[i]]

UpdateURLMappingAccessCount(rows, h, t) ==
    [i \in 1..Len(rows) |->
        IF rows[i].hashed_key = h
        THEN [rows[i] EXCEPT !.access_count = @ + 1, !.accessed_at = t]
        ELSE rows[i]]

CalendarRows(t, f) ==
    {m \in store : m.startValid /\ m.start >= t - CalendarWindow /\ SelectedBy(m, f)}

GetCalendarMatchesBySelections(t, f, tieAsc) == OrderBy(CalendarRows(t, f), TRUE, tieAsc)

generateICS(ms, hideScores) ==
    <<"VCALENDAR", IF hideScores THEN "scores hidden" ELSE "scores shown", ms>>

RECURSIVE SortedIDs(_)
SortedIDs(S) ==
    IF S = {} THEN <<>>
    ELSE LET least == CHOOSE x \in S : \A y \in S : x <= y
         IN  <<least>> \o SortedIDs(S \ {least})

GetLeaguesByGameID(g) == SortedIDs({m.league : m \in {r \in store : r.game = g}})

GetTeamsByGameID(g) ==
    SortedIDs({m.team1 : m \in {r \in store : r.game = g}}
              \cup {m.team2 : m \in {r \in store : r.game = g}})

OptionsOf(kind, g) ==
    IF kind = "league-options" THEN GetLeaguesByGameID(g) ELSE GetTeamsByGameID(g)

\* json.Marshal of the option-list response
OptionsJSON(kind, ids) == <<kind, "json", ids>>

\* c.JSON(500, {"error": true, "message": ..., "leagues" or "teams": []}):
\* the body of a failed query, marked as an error, with the empty list
OptionsErrorJSON(kind) == <<kind, "error", <<>>>>

(***************************************************************************)
(* RedisCache.  A key lives until its expiry time; a command that fails    *)
(* (connection lost, timeout) reads nothing and writes nothing.            *)
(***************************************************************************)
icsPrefix == "ics:"

dataPrefix == "data:"

icsCacheTTL == 2

dataCacheTTL == 1

NotFound == [found |-> FALSE, val |-> <<>>]

RedisGet(db, key, t) ==
    IF key \in DOMAIN db /\ db[key].exp > t
    THEN [found |-> TRUE, val |-> db[key].val]
    ELSE NotFound

RedisSet(db, key, val, ttl, t) ==
    [k \in DOMAIN db \cup {key} |->
        IF k = key THEN [val |-> val, exp |-> t + ttl] ELSE db[k]]

\* mutant: the read ignores the hash and answers any calendar text it holds
GetICSAnyHash(db, hash, t, err) ==
    LET live == {k \in DOMAIN db : k[1] = icsPrefix /\ db[k].exp > t}
    IN  IF err \/ live = {} THEN NotFound
        ELSE [found |-> TRUE, val |-> db[CHOOSE k \in live : TRUE].val]

GetICS(db, hash, t, err) ==
    IF err THEN NotFound ELSE RedisGet(db, <<icsPrefix, hash>>, t)

SetICS(db, hash, content, t, err) ==
    IF err THEN db ELSE RedisSet(db, <<icsPrefix, hash>>, content, icsCacheTTL, t)

GetBytes(db, key, t, err) ==
    IF err THEN NotFound ELSE RedisGet(db, <<dataPrefix, key>>, t)

\* mutant: the bytes are stored under the ICS prefix
SetBytesUnderIcsPrefix(db, key, data, t, err) ==
    IF err THEN db ELSE RedisSet(db, <<icsPrefix, key>>, data, dataCacheTTL, t)

SetBytes(db, key, data, t, err) ==
    IF err THEN db ELSE RedisSet(db, <<dataPrefix, key>>, data, dataCacheTTL, t)

(***************************************************************************)
(* The HTTP handlers.  Every request runs in its own goroutine; a handler  *)
(* is cut into steps at its database statements and Redis commands, which  *)
(* are the only places where it meets another request.                     *)
(***************************************************************************)
NumProcs == 2
MaxRequests == 2
MaxTicks == 2

WProcs == 1..NumProcs

WebStart == CalendarWindow + 150

UnknownHash == [i \in 1..HashLen |-> 15]

\* mutant: the bytes of the request body are hashed and stored as received
RawBytes(body) ==
    body.members \o [i \in 1..body.spaces |-> <<"x", [str |-> " "]>>]

\* json.Marshal(requestBody) of the decoded body
Canonical(body) == Marshal(DecodeJSON(body.members))

HashSpace == {generateHash(Canonical(b)) : b \in {r \in RawBodies : r.valid}}
             \cup {UnknownHash}

OptionParams == {"1", "x"}

OptionKinds == {"league-options", "team-options"}

Locals0 ==
    [handler |-> "none", hash |-> <<>>, data |-> <<>>, key |-> <<>>,
     content |-> <<>>, source |-> "none", dbFailed |-> FALSE, updFailed |-> FALSE,
     setFailed |-> FALSE]

NoResponse == [status |-> 0, body |-> <<>>, xcache |-> ""]

Respond(p, status, body, xcache) ==
    /\ resp' = [resp EXCEPT ![p] = [status |-> status, body |-> body, xcache |-> xcache]]
    /\ wpc' = [wpc EXCEPT ![p] = "idle"]

Goto(p, label) ==
    /\ wpc' = [wpc EXCEPT ![p] = label]
    /\ UNCHANGED resp

\* a request is handed to the first free goroutine
Accept(p) ==
    /\ server = "running"
    /\ wpc[p] = "idle"
    /\ \A q \in WProcs : q < p => wpc[q] # "idle"
    /\ nreq < MaxRequests
    /\ nreq' = nreq + 1

\* mutant: the handlers use the cache whether or not a client was built
CacheAlwaysEnabled == TRUE

\* if m.RedisCache != nil
CacheEnabled == RedisCache # "nil"

\* mutant: a failed access-count update aborts the request
AbortOnAccessCountError(err) == IF err THEN 500 ELSE 0

\* the status written when UpdateURLMappingAccessCount returns err (0: none,
\* the error is logged and the handler goes on)
AccessCountErrorStatus(err) == 0

InitMiddleHandler ==
    /\ server = "boot"
    /\ \E dbErr \in BOOLEAN, redisErr \in BOOLEAN :
          IF dbErr
          THEN server' = "crashed" /\ initErr' = "db" /\ UNCHANGED RedisCache
          ELSE /\ server' = "running"
               /\ initErr' = IF redisErr THEN "redis" ELSE "none"
               /\ RedisCache' = IF redisErr THEN "nil" ELSE "client"
    /\ UNCHANGED <<now, fetchVars, restVars, cacheVars, url_mappings, redis, wpc, wloc, resp, nreq,
                   lookups, updFails, cacheOps>>

ExportHandler(p) ==
    /\ Accept(p)
    /\ \E body \in RawBodies :
          IF ~body.valid
          THEN /\ wloc' = [wloc EXCEPT ![p] = [Locals0 EXCEPT !.handler = "export"]]
               /\ Respond(p, 400, <<"Invalid request body">>, "")
          ELSE /\ wloc' = [wloc EXCEPT ![p] =
                              [Locals0 EXCEPT !.handler = "export",
                                              !.data = Canonical(body),
                                              !.hash = generateHash(Canonical(body))]]
               /\ Goto(p, "export_insert")
    /\ UNCHANGED <<now, fetchVars, restVars, cacheVars, server, initErr, RedisCache, url_mappings, redis,
                   lookups, updFails, cacheOps>>

ExportInsert(p) ==
    /\ wpc[p] = "export_insert"
    /\ \E failed \in BOOLEAN :
          IF failed
          THEN /\ wloc' = [wloc EXCEPT ![p].dbFailed = TRUE]
               /\ Respond(p, 500, <<"Failed to create calendar link">>, "")
               /\ UNCHANGED url_mappings
          ELSE /\ url_mappings' = InsertURLMapping(url_mappings, wloc[p].hash,
                                                   wloc[p].data, now)
               /\ Respond(p, 200, wloc[p].hash, "")
               /\ UNCHANGED wloc
    /\ UNCHANGED <<now, fetchVars, restVars, cacheVars, server, initErr, RedisCache, redis, nreq,
                   lookups, updFails, cacheOps>>

\* the paths requested: no hash, a hash nobody exported, the hash of the
\* payload an earlier run exported and cached, and every hash in the table
CalendarPaths ==
    {<<>>, UnknownHash, generateHash(Canonical([valid |-> TRUE, spaces |-> 0,
                                                members |-> << <<"1", EntryA>> >>]))}
        \cup {url_mappings[i].hashed_key : i \in 1..Len(url_mappings)}

\* mutant: the cache is consulted before the mapping is looked up
CalendarHandlerCacheFirst(p) ==
    /\ Accept(p)
    /\ \E hash \in CalendarPaths, failed \in BOOLEAN :
          LET found  == GetURLMapping(url_mappings, hash)
              start  == [Locals0 EXCEPT !.handler = "calendar", !.hash = hash]
              cached == IF CacheEnabled /\ hash # <<>>
                        THEN GetICS(redis, hash, now, FALSE) ELSE NotFound
          IN  IF hash = <<>>
              THEN /\ wloc' = [wloc EXCEPT ![p] = start]
                   /\ Respond(p, 400, <<"Invalid calendar URL">>, "")
              ELSE IF cached.found
              THEN /\ wloc' = [wloc EXCEPT ![p] = [start EXCEPT !.content = cached.val,
                                                                 !.source = "cache"]]
                   /\ Respond(p, 200, cached.val, "")
              ELSE IF failed \/ Len(found) = 0
              THEN /\ wloc' = [wloc EXCEPT ![p] = [start EXCEPT !.dbFailed = failed]]
                   /\ Respond(p, 404, <<"Calendar not found">>, "")
              ELSE /\ wloc' = [wloc EXCEPT ![p] = [start EXCEPT !.data = found[1].value_list]]
                   /\ Goto(p, "cal_update")
    /\ UNCHANGED <<now, fetchVars, restVars, cacheVars, server, initErr, RedisCache, url_mappings, redis,
                   lookups, updFails, cacheOps>>

\* GET /:hash.ics up to the mapping lookup
CalendarHandler(p) ==
    /\ Accept(p)
    /\ \E hash \in CalendarPaths, failed \in BOOLEAN :
          LET found == GetURLMapping(url_mappings, hash)
              start == [Locals0 EXCEPT !.handler = "calendar", !.hash = hash]
          IN  IF hash = <<>>
              THEN /\ wloc' = [wloc EXCEPT ![p] = start]
                   /\ Respond(p, 400, <<"Invalid calendar URL">>, "")
              ELSE IF failed \/ Len(found) = 0
              THEN /\ wloc' = [wloc EXCEPT ![p] = [start EXCEPT !.dbFailed = failed]]
                   /\ Respond(p, 404, <<"Calendar not found">>, "")
              ELSE /\ wloc' = [wloc EXCEPT ![p] = [start EXCEPT !.data = found[1].value_list]]
                   /\ Goto(p, "cal_update")
    /\ UNCHANGED <<now, fetchVars, restVars, cacheVars, server, initErr, RedisCache, url_mappings, redis,
                   lookups, updFails, cacheOps>>

CalendarUpdate(p) ==
    /\ wpc[p] = "cal_update"
    /\ lookups' = [lookups EXCEPT ![wloc[p].hash] = @ + 1]
    /\ \E failed \in BOOLEAN :
          /\ IF failed
             THEN /\ updFails' = [updFails EXCEPT ![wloc[p].hash] = @ + 1]
                  /\ UNCHANGED url_mappings
             ELSE /\ url_mappings' = UpdateURLMappingAccessCount(url_mappings,
                                                                 wloc[p].hash, now)
                  /\ UNCHANGED updFails
          /\ wloc' = [wloc EXCEPT ![p].updFailed = failed]
          /\ IF AccessCountErrorStatus(failed) # 0
             THEN Respond(p, AccessCountErrorStatus(failed), <<"error">>, "")
             ELSE Goto(p, IF CacheEnabled THEN "cal_cache" ELSE "cal_query")
    /\ UNCHANGED <<now, fetchVars, restVars, cacheVars, server, initErr, RedisCache, redis, nreq, cacheOps>>

CalendarCacheGet(p) ==
    /\ wpc[p] = "cal_cache"
    /\ cacheOps' = cacheOps + 1
    /\ \E failed \in BOOLEAN :
          LET got == GetICS(redis, wloc[p].hash, now, failed)
          IN  IF got.found
              THEN /\ wloc' = [wloc EXCEPT ![p].content = got.val, ![p].source = "cache"]
                   /\ Respond(p, 200, got.val, "")
              ELSE /\ UNCHANGED wloc
                   /\ Goto(p, "cal_query")
    /\ UNCHANGED <<now, fetchVars, restVars, cacheVars, server, initErr, RedisCache, url_mappings, redis, nreq,
                   lookups, updFails>>

\* what the handler generates from the stored payload at time t
CalendarContent(data, t, tieAsc) ==
    LET storedData == DecodeJSON(data)
        f          == parseSelections(SelectionsOf(storedData))
        ms         == IF Cardinality(f.games) > 0
                      THEN GetCalendarMatchesBySelections(t, f, tieAsc)
                      ELSE <<>>
    IN  generateICS(ms, HideScoresOf(storedData))

NeedsQuery(data) == Cardinality(parseSelections(SelectionsOf(DecodeJSON(data))).games) > 0

CalendarQuery(p) ==
    /\ wpc[p] = "cal_query"
    /\ \E failed \in BOOLEAN, tieAsc \in BOOLEAN :
          IF failed /\ NeedsQuery(wloc[p].data)
          THEN /\ wloc' = [wloc EXCEPT ![p].dbFailed = TRUE]
               /\ Respond(p, 500, <<"Failed to generate calendar">>, "")
          ELSE LET icsContent == CalendarContent(wloc[p].data, now, tieAsc)
               IN  /\ wloc' = [wloc EXCEPT ![p].content = icsContent,
                                           ![p].source = "db"]
                   /\ IF CacheEnabled
                      THEN Goto(p, "cal_set")
                      ELSE Respond(p, 200, icsContent, "")
    /\ UNCHANGED <<now, fetchVars, restVars, cacheVars, server, initErr, RedisCache, url_mappings, redis, nreq,
                   lookups, updFails, cacheOps>>

CalendarCacheSet(p) ==
    /\ wpc[p] = "cal_set"
    /\ cacheOps' = cacheOps + 1
    /\ \E failed \in BOOLEAN :
          /\ redis' = SetICS(redis, wloc[p].hash, wloc[p].content, now, failed)
          /\ wloc' = [wloc EXCEPT ![p].setFailed = failed]
    /\ Respond(p, 200, wloc[p].content, "")
    /\ UNCHANGED <<now, fetchVars, restVars, cacheVars, server, initErr, RedisCache, url_mappings, nreq,
                   lookups, updFails>>

\* LeagueOptionsHandler / TeamOptionsHandler up to the cache lookup
OptionsHandler(p) ==
    /\ Accept(p)
    /\ \E kind \in OptionKinds, param \in OptionParams, failed \in BOOLEAN :
          LET gameID == ParseInt(param)
              key    == <<kind, gameID.n>>
              start  == [Locals0 EXCEPT !.handler = kind, !.key = key]
              got    == GetBytes(redis, key, now, failed)
          IN  IF ~gameID.ok
              THEN /\ wloc' = [wloc EXCEPT ![p] = [start EXCEPT !.key = <<>>]]
                   /\ Respond(p, 400, <<"Invalid game ID">>, "")
                   /\ UNCHANGED cacheOps
              ELSE IF ~CacheEnabled
              THEN /\ wloc' = [wloc EXCEPT ![p] = start]
                   /\ Goto(p, "opt_query")
                   /\ UNCHANGED cacheOps
              ELSE /\ cacheOps' = cacheOps + 1
                   /\ IF got.found
                      THEN /\ wloc' = [wloc EXCEPT ![p] =
                                         [start EXCEPT !.content = got.val,
                                                       !.source = "cache"]]
                           /\ Respond(p, 200, got.val, "HIT")
                      ELSE /\ wloc' = [wloc EXCEPT ![p] = start]
                           /\ Goto(p, "opt_query")
    /\ UNCHANGED <<now, fetchVars, restVars, cacheVars, server, initErr, RedisCache, url_mappings, redis,
                   lookups, updFails>>

\* mutant: the error body of a failed query is stored like a response
OptionsQueryCachingErrors(p) ==
    /\ wpc[p] = "opt_query"
    /\ \E failed \in BOOLEAN :
          IF failed
          THEN /\ wloc' = [wloc EXCEPT ![p].dbFailed = TRUE]
               /\ redis' = IF CacheEnabled
                           THEN SetBytes(redis, wloc[p].key,
                                         OptionsErrorJSON(wloc[p].key[1]), now, FALSE)
                           ELSE redis
               /\ Respond(p, 500, OptionsErrorJSON(wloc[p].key[1]), "")
          ELSE LET kind          == wloc[p].key[1]
                   responseBytes == OptionsJSON(kind, OptionsOf(kind, wloc[p].key[2]))
               IN  /\ wloc' = [wloc EXCEPT ![p].content = responseBytes,
                                           ![p].source = "db"]
                   /\ UNCHANGED redis
                   /\ IF CacheEnabled
                      THEN Goto(p, "opt_set")
                      ELSE Respond(p, 200, responseBytes, "MISS")
    /\ UNCHANGED <<now, fetchVars, restVars, cacheVars, server, initErr, RedisCache, url_mappings, nreq,
                   lookups, updFails, cacheOps>>

OptionsQuery(p) ==
    /\ wpc[p] = "opt_query"
    /\ \E failed \in BOOLEAN :
          IF failed
          THEN /\ wloc' = [wloc EXCEPT ![p].dbFailed = TRUE]
               /\ Respond(p, 500, OptionsErrorJSON(wloc[p].key[1]), "")
          ELSE LET kind          == wloc[p].key[1]
                   responseBytes == OptionsJSON(kind, OptionsOf(kind, wloc[p].key[2]))
               IN  /\ wloc' = [wloc EXCEPT ![p].content = responseBytes,
                                           ![p].source = "db"]
                   /\ IF CacheEnabled
                      THEN Goto(p, "opt_set")
                      ELSE Respond(p, 200, responseBytes, "MISS")
    /\ UNCHANGED <<now, fetchVars, restVars, cacheVars, server, initErr, RedisCache, url_mappings, redis, nreq,
                   lookups, updFails, cacheOps>>

OptionsCacheSet(p) ==
    /\ wpc[p] = "opt_set"
    /\ cacheOps' = cacheOps + 1
    /\ \E failed \in BOOLEAN :
          /\ redis' = SetBytes(redis, wloc[p].key, wloc[p].content, now, failed)
          /\ wloc' = [wloc EXCEPT ![p].setFailed = failed]
    /\ Respond(p, 200, wloc[p].content, "MISS")
    /\ UNCHANGED <<now, fetchVars, restVars, cacheVars, server, initErr, RedisCache, url_mappings, nreq,
                   lookups, updFails>>

\* fetchMatches as one value: both queries read the clock at t
fetchMatches(t, f, tieAsc) ==
    IF Cardinality(f.games) = 0
    THEN [matches |-> <<>>, showingPast |-> FALSE]
    ELSE LET future == GetFutureMatchesBySelections(t, f, totalLimit, tieAsc)
             past   == IF totalLimit - Len(future) > 0
                       THEN GetPastMatchesBySelections(t, f, totalLimit - Len(future), tieAsc)
                       ELSE <<>>
         IN  [matches |-> Combine(past, future), showingPast |-> ShowingPast(future, past)]

\* POST /preview: reads the matches table only
PreviewHandler(p) ==
    /\ Accept(p)
    /\ \E body \in RawBodies, failed \in BOOLEAN, tieAsc \in BOOLEAN :
          LET requestBody == DecodeJSON(body.members)
              f           == parseSelections(SelectionsOf(requestBody))
              start       == [Locals0 EXCEPT !.handler = "preview"]
          IN  IF ~body.valid
              THEN /\ wloc' = [wloc EXCEPT ![p] = start]
                   /\ Respond(p, 400, <<"Invalid request body">>, "")
              ELSE IF failed /\ Cardinality(f.games) > 0
              THEN /\ wloc' = [wloc EXCEPT ![p] = [start EXCEPT !.dbFailed = TRUE]]
                   /\ Respond(p, 500, <<"Failed to fetch matches">>, "")
              ELSE /\ wloc' = [wloc EXCEPT ![p] = [start EXCEPT !.source = "db"]]
                   /\ Respond(p, 200, <<"PreviewPage", fetchMatches(now, f, tieAsc),
                                        HideScoresOf(requestBody)>>, "")
    /\ UNCHANGED <<now, fetchVars, restVars, cacheVars, server, initErr, RedisCache, url_mappings, redis,
                   lookups, updFails, cacheOps>>

Tick ==
    /\ server = "running"
    /\ now < WebStart + MaxTicks
    /\ now' = now + 1
    /\ UNCHANGED <<fetchVars, restVars, webVars, cacheVars>>

(***************************************************************************)
(* ICSCache: a map from hash to entry, an LRU list of the entries'         *)
(* elements and one file per entry, under one sync.RWMutex.  Get looks the *)
(* entry up under the read lock, then reads entry.lastUpdate and the file  *)
(* with no lock held, then takes the write lock to move the element to the *)
(* front.  Set and Clear hold the write lock from start to return.         *)
(***************************************************************************)
\* the capacity, 256 in the source, is scaled down so that the cache fills
maxCacheSize == 2
MaxCacheOps == 3

cacheRefreshTime == 2

MaxCacheTime == cacheRefreshTime + 1

CacheKeys == {"h1", "h2", "h3"}

CacheValues == {"v1", "v2"}

CLocals0 ==
    [op |-> "none", hash |-> "", val |-> "", entry |-> 0, content |-> "",
     found |-> FALSE, err |-> FALSE, clean |-> FALSE, expect |-> "",
     neverSet |-> FALSE, older |-> {}, lost |-> FALSE]

\* at: the time of the Set that stored val
Unsettled == [ok |-> FALSE, val |-> "", at |-> 0]

\* mutant: an entry never expires
ExpiredNever(id, t) == FALSE

\* time.Since(entry.lastUpdate) > cacheRefreshTime
Expired(id, t) == t - objs[id].lastUpdate > cacheRefreshTime

\* list.MoveToFront(e): nothing happens when e is not an element of the list
MoveToFront(l, id) ==
    IF id \in Range(l) THEN <<id>> \o SelectSeq(l, LAMBDA x : x # id) ELSE l

Without(l, x) == SelectSeq(l, LAMBDA y : y # x)

Touch(l, h) == <<h>> \o Without(l, h)

\* mutant: the key stays in the map
RemoveKeyKept(f, k) == f

\* delete(c.entries, hash)
RemoveKey(f, k) == [x \in DOMAIN f \ {k} |-> f[x]]

\* Gets of a hash in hs that are in progress lose the guarantee of the last Set
Disturb(loc, hs) ==
    [q \in WProcs |->
        IF loc[q].op = "get" /\ loc[q].hash \in hs
        THEN [loc[q] EXCEPT !.clean = FALSE] ELSE loc[q]]

\* a call on hash h starts: for the Gets in progress, h is no longer an
\* entry whose last use is older than theirs
Newer(loc, h) == [q \in WProcs |-> [loc[q] EXCEPT !.older = @ \ {h}]]

\* the entry of hash vh is evicted: a Get that has read it already has lost
\* it to an entry used less recently when such an entry stays cached
Evicted(loc, vh, kept) ==
    [q \in WProcs |->
        IF /\ loc[q].op = "get" /\ cpc[q] = "get_promote" /\ loc[q].hash = vh
           /\ loc[q].older \cap kept # {}
        THEN [loc[q] EXCEPT !.lost = TRUE] ELSE loc[q]]

\* hashes some other goroutine is working on
Busy(p) == {cloc[q].hash : q \in {r \in WProcs : r # p /\ cpc[r] # "idle"}}

\* ICSCache and RedisCache share no state: a run calls the file cache
\* first and Redis after it
RedisUntouched == \A k \in DOMAIN rsettled : ~rsettled[k].ever

StartCall(p) ==
    /\ cpc[p] = "idle"
    /\ cops < MaxCacheOps
    /\ RedisUntouched /\ rlast.key = <<>>
    /\ cops' = cops + 1

redisFrame == <<redis, rsettled, rlast>>

\* Get, lines 417-423: the lookup under the read lock
GetLookup(p) ==
    /\ StartCall(p)
    /\ muWriter = 0
    /\ \E h \in CacheKeys :
          LET exists == h \in DOMAIN entries
              start  == [CLocals0 EXCEPT
                            !.op = "get", !.hash = h,
                            !.clean = settled[h].ok /\ exists /\ ~Expired(entries[h], now),
                            !.expect = settled[h].val,
                            !.neverSet = ~everSet[h],
                            !.older = (DOMAIN entries \ {h}) \ Busy(p)]
          IN  IF exists
              THEN /\ cloc' = [Newer(cloc, h) EXCEPT
                                 ![p] = [start EXCEPT !.entry = entries[h]]]
                   /\ cpc' = [cpc EXCEPT ![p] = "get_read"]
              ELSE /\ cloc' = [Newer(cloc, h) EXCEPT ![p] = start]
                   /\ UNCHANGED cpc
    /\ UNCHANGED <<now, fetchVars, restVars, webRest, redisFrame, muWriter, entries, lruList,
                   objs, files, settled, everSet, recency, unguarded, readDuringWrite>>

\* Get, lines 425-436: entry.lastUpdate and the file are read with no lock.
\* A read of lastUpdate that overlaps a Set of the same entry is a data
\* race: it may see the old value, the new one or a torn one.
GetRead(p) ==
    /\ cpc[p] = "get_read"
    /\ LET id     == cloc[p].entry
           racing == muWriter # 0 /\ cloc[muWriter].entry = id
       IN  /\ unguarded' = unguarded \cup {"lastUpdate", "filePath"}
           /\ readDuringWrite' = (readDuringWrite \/ racing)
           /\ \E torn \in BOOLEAN, ioErr \in BOOLEAN :
                 LET expired == IF racing THEN torn ELSE Expired(id, now)
                     file    == files[objs[id].hash]
                 IN  IF expired
                     THEN /\ cloc' = [cloc EXCEPT ![p].found = FALSE]
                          /\ cpc' = [cpc EXCEPT ![p] = "idle"]
                     ELSE IF ioErr \/ file = "none"
                     THEN /\ cloc' = [cloc EXCEPT ![p].found = FALSE, ![p].err = TRUE]
                          /\ cpc' = [cpc EXCEPT ![p] = "idle"]
                     ELSE /\ cloc' = [cloc EXCEPT ![p].content = file]
                          /\ cpc' = [cpc EXCEPT ![p] = "get_promote"]
    /\ UNCHANGED <<now, fetchVars, restVars, webRest, redisFrame, muWriter, entries, lruList,
                   objs, files, cops, settled, everSet, recency>>

\* Get, lines 438-444: the element moves to the front under the write lock
GetPromote(p) ==
    /\ cpc[p] = "get_promote"
    /\ muWriter = 0
    /\ lruList' = MoveToFront(lruList, cloc[p].entry)
    /\ recency' = IF cloc[p].entry \in Range(lruList)
                  THEN Touch(recency, cloc[p].hash) ELSE recency
    /\ cloc' = [cloc EXCEPT ![p].found = TRUE]
    /\ cpc' = [cpc EXCEPT ![p] = "idle"]
    /\ UNCHANGED <<now, fetchVars, restVars, webRest, redisFrame, muWriter, entries, objs,
                   files, cops, settled, everSet, unguarded, readDuringWrite>>

\* evictLRU: the entry at the back of the list, its file and its map key
Victim == objs[lruList[Len(lruList)]].hash

\* Set, lines 449-471: lock, look the hash up, make room for a new entry,
\* open the file for writing (which truncates it)
SetBegin(p) ==
    /\ StartCall(p)
    /\ muWriter = 0
    /\ muWriter' = p
    /\ \E h \in CacheKeys, v \in CacheValues :
          LET exists == h \in DOMAIN entries
              full   == Len(lruList) >= maxCacheSize
              gone   == IF ~exists /\ full THEN {Victim} ELSE {}
              after  == IF gone = {} THEN cloc
                        ELSE Evicted(cloc, Victim, DOMAIN entries \ {Victim})
          IN  /\ cloc' = [Newer(Disturb(after, gone \cup {h}), h) EXCEPT
                            ![p] = [CLocals0 EXCEPT
                                      !.op = "set", !.hash = h, !.val = v,
                                      !.entry = IF exists THEN entries[h] ELSE 0]]
              /\ everSet' = [everSet EXCEPT ![h] = TRUE]
              /\ settled' = [k \in CacheKeys |->
                               IF k \in gone \cup {h} THEN Unsettled ELSE settled[k]]
              /\ files' = [k \in CacheKeys |->
                             IF k = h THEN "empty"
                             ELSE IF k \in gone THEN "none" ELSE files[k]]
              /\ IF gone # {}
                 THEN /\ entries' = RemoveKey(entries, Victim)
                      /\ lruList' = SubSeq(lruList, 1, Len(lruList) - 1)
                      /\ recency' = Without(recency, Victim)
                 ELSE UNCHANGED <<entries, lruList, recency>>
    /\ cpc' = [cpc EXCEPT ![p] = "set_write"]
    /\ UNCHANGED <<now, fetchVars, restVars, webRest, redisFrame, objs, unguarded,
                   readDuringWrite>>

\* Set, lines 455-462 and 472-487: write the content; on success stamp the
\* entry and put its element at the front; unlock on return
SetWrite(p) ==
    /\ cpc[p] = "set_write"
    /\ muWriter' = 0
    /\ cpc' = [cpc EXCEPT ![p] = "idle"]
    /\ \E failed \in BOOLEAN :
          LET h  == cloc[p].hash
              id == cloc[p].entry
          IN  IF failed
              THEN /\ cloc' = [cloc EXCEPT ![p].err = TRUE]
                   /\ UNCHANGED <<entries, lruList, objs, files, settled, recency>>
              ELSE /\ files' = [files EXCEPT ![h] = cloc[p].val]
                   /\ settled' = [settled EXCEPT ![h] = [ok |-> TRUE, val |-> cloc[p].val,
                                                         at |-> now]]
                   /\ recency' = Touch(recency, h)
                   /\ UNCHANGED cloc
                   /\ IF id # 0
                      THEN /\ objs' = [objs EXCEPT ![id].lastUpdate = now]
                           /\ lruList' = MoveToFront(lruList, id)
                           /\ UNCHANGED entries
                      ELSE /\ objs' = Append(objs, [hash |-> h, lastUpdate |-> now])
                           /\ lruList' = <<Len(objs) + 1>> \o lruList
                           /\ entries' = [k \in DOMAIN entries \cup {h} |->
                                            IF k = h THEN Len(objs) + 1 ELSE entries[k]]
    /\ UNCHANGED <<now, fetchVars, restVars, webRest, redisFrame, cops, everSet, unguarded,
                   readDuringWrite>>

\* Clear: every file removed, a new map and a new list, all under the lock
Clear(p) ==
    /\ StartCall(p)
    /\ muWriter = 0
    /\ entries # <<>>
    /\ files' = [k \in CacheKeys |-> IF k \in DOMAIN entries THEN "none" ELSE files[k]]
    /\ entries' = <<>>
    /\ lruList' = <<>>
    /\ recency' = <<>>
    /\ settled' = [k \in CacheKeys |-> Unsettled]
    /\ cloc' = [Disturb(cloc, CacheKeys) EXCEPT ![p] = [CLocals0 EXCEPT !.op = "clear"]]
    /\ UNCHANGED <<now, fetchVars, restVars, webRest, redisFrame, muWriter, objs, cpc, everSet,
                   unguarded, readDuringWrite>>

(***************************************************************************)
(* RedisCache called directly: each call is one Redis command.             *)
(***************************************************************************)
RedisNames == {"h1"}

RedisKeys == {<<icsPrefix, n>> : n \in RedisNames} \cup {<<dataPrefix, n>> : n \in RedisNames}

icsFrame == <<muWriter, entries, lruList, objs, files, cpc, cloc, settled, everSet,
              recency, unguarded, readDuringWrite>>

RedisCall ==
    /\ cops < MaxCacheOps
    /\ cops' = cops + 1
    /\ UNCHANGED <<now, fetchVars, restVars, webRest, icsFrame>>

AfterSet(key, v, ttl, err) ==
    rsettled' = [rsettled EXCEPT ![key] =
                   [ok |-> ~err, val |-> v, exp |-> now + ttl, ever |-> TRUE]]

AfterGet(key, got, err) ==
    rlast' = [key |-> key, found |-> got.found, val |-> got.val, err |-> err,
              clean |-> rsettled[key].ok /\ now < rsettled[key].exp,
              expect |-> rsettled[key].val, neverSet |-> ~rsettled[key].ever]

CacheSetICS ==
    /\ RedisCall
    /\ \E h \in RedisNames, v \in CacheValues, err \in BOOLEAN :
          /\ redis' = SetICS(redis, h, v, now, err)
          /\ AfterSet(<<icsPrefix, h>>, v, icsCacheTTL, err)
    /\ UNCHANGED rlast

CacheGetICS ==
    /\ RedisCall
    /\ \E h \in RedisNames, err \in BOOLEAN :
          AfterGet(<<icsPrefix, h>>, GetICS(redis, h, now, err), err)
    /\ UNCHANGED <<redis, rsettled>>

CacheSetBytes ==
    /\ RedisCall
    /\ \E k \in RedisNames, v \in CacheValues, err \in BOOLEAN :
          /\ redis' = SetBytes(redis, k, v, now, err)
          /\ AfterSet(<<dataPrefix, k>>, v, dataCacheTTL, err)
    /\ UNCHANGED rlast

CacheGetBytes ==
    /\ RedisCall
    /\ \E k \in RedisNames, err \in BOOLEAN :
          AfterGet(<<dataPrefix, k>>, GetBytes(redis, k, now, err), err)
    /\ UNCHANGED <<redis, rsettled>>

\* time passes; a Get in progress whose entry expires meanwhile is no
\* longer owed the value
CacheTick ==
    /\ now < MaxCacheTime
    /\ now' = now + 1
    /\ cloc' = [q \in WProcs |->
                  IF cloc[q].op = "get" /\ cloc[q].entry # 0 /\ Expired(cloc[q].entry, now + 1)
                  THEN [cloc[q] EXCEPT !.clean = FALSE] ELSE cloc[q]]
    /\ UNCHANGED <<fetchVars, restVars, webRest, redisFrame, muWriter, entries, lruList, objs,
                   files, cpc, cops, settled, everSet, recency, unguarded,
                   readDuringWrite>>

(***************************************************************************)
(* The calendar text.  A string is a sequence of pieces; a piece is one of *)
(* the four characters escapeICS looks for, or text that contains none of  *)
(* them.                                                                   *)
(***************************************************************************)
MaxStrLen == 4
MaxICSMatches == 2
TextCalls == 2
MaxTextTicks == 2

BS == "\\"

LF == "\n"

Chars == {BS, ",", ";", LF, "n", "a"}

Strings == UNION {[1..n -> Chars] : n \in 0..MaxStrLen}

\* strings.ReplaceAll(s, old, new) for a one-character old
RECURSIVE ReplaceAll(_, _, _)
ReplaceAll(s, old, new) ==
    IF s = <<>> THEN <<>>
    ELSE (IF Head(s) = old THEN new ELSE <<Head(s)>>) \o ReplaceAll(Tail(s), old, new)

\* mutant: the backslash is replaced last
escapeICSBackslashLast(s) ==
    LET s1 == ReplaceAll(s, ",", <<BS, ",">>)
        s2 == ReplaceAll(s1, ";", <<BS, ";">>)
        s3 == ReplaceAll(s2, LF, <<BS, "n">>)
    IN  ReplaceAll(s3, BS, <<BS, BS>>)

escapeICS(s) ==
    LET s1 == ReplaceAll(s, BS, <<BS, BS>>)
        s2 == ReplaceAll(s1, ",", <<BS, ",">>)
        s3 == ReplaceAll(s2, ";", <<BS, ";">>)
    IN  ReplaceAll(s3, LF, <<BS, "n">>)

\* fmt.Sprintf("%d", n)
RECURSIVE Itoa(_)
Itoa(n) ==
    IF n < 0 THEN <<"-">> \o Itoa(0 - n)
    ELSE IF n < 10 THEN <<(<<"0", "1", "2", "3", "4", "5", "6", "7", "8", "9">>)[n + 1]>>
    ELSE Itoa(n \div 10) \o Itoa(n % 10)

\* t.UTC().Format("20060102T150405Z"), for a time counted in hours: the
\* date (as a day number), "T", the hour of the day, minutes and seconds
FormatUTC(t) == Itoa(t \div 24) \o <<"T">> \o Itoa(t % 24) \o <<"0000Z">>

\* mutant: DTSTAMP is the time of the call
DTStampNow(startTime) == FormatUTC(now)

\* line 42: DTSTAMP is formatted from the match start time
DTStamp(startTime) == FormatUTC(startTime)

Line(name, value) == [name |-> name, value |-> value]

\* mutant: the score is appended to the summary of every finished match
SummaryAlwaysScore(match, hideScores) ==
    LET plain == <<"[">> \o match.GameName \o <<"] ">> \o match.Name
        full  == <<"[">> \o match.GameName \o <<"] ">> \o match.TournamentName
                    \o <<" - ">> \o match.Name
        base  == IF match.TournamentName # <<>> THEN full ELSE plain
    IN  IF match.Finished
        THEN base \o <<" [">> \o Itoa(match.Team1Score) \o <<"-">>
                  \o Itoa(match.Team2Score) \o <<"]">>
        ELSE base

\* lines 49-56
Summary(match, hideScores) ==
    LET plain == <<"[">> \o match.GameName \o <<"] ">> \o match.Name
        full  == <<"[">> \o match.GameName \o <<"] ">> \o match.TournamentName
                    \o <<" - ">> \o match.Name
        base  == IF match.TournamentName # <<>> THEN full ELSE plain
    IN  IF match.Finished /\ ~hideScores
        THEN base \o <<" [">> \o Itoa(match.Team1Score) \o <<"-">>
                  \o Itoa(match.Team2Score) \o <<"]">>
        ELSE base

\* lines 23-30 and 60-88
Description(match, hideScores) ==
    LET team1Name == IF match.Team1Name.Valid THEN match.Team1Name.String ELSE <<"TBD">>
        team2Name == IF match.Team2Name.Valid THEN match.Team2Name.String ELSE <<"TBD">>
        tail      == <<" - ">> \o match.TournamentName \o <<" - ">> \o match.LeagueName
                        \o <<" (">> \o match.GameName \o <<")">>
        score     == IF ~match.Finished THEN <<>>
                     ELSE IF hideScores THEN <<" [Finished]">>
                     ELSE <<" [">> \o Itoa(match.Team1Score) \o <<"-">>
                              \o Itoa(match.Team2Score) \o <<"]">>
    IN  team1Name \o <<" vs ">> \o team2Name \o score \o tail

\* lines 92-100
Location(match) ==
    IF match.LeagueName # <<>> /\ match.SeriesName # <<>>
    THEN match.LeagueName \o <<" - ">> \o match.SeriesName
    ELSE IF match.LeagueName # <<>> THEN match.LeagueName
    ELSE IF match.SeriesName # <<>> THEN match.SeriesName
    ELSE <<>>

\* lines 31-107: the lines of one match; none when it has no start time
Event(match, hideScores, baseURL) ==
    IF ~match.ExpectedStartTime.Valid THEN <<>>
    ELSE LET startTime == match.ExpectedStartTime.Time
             endTime   == startTime + match.AmountOfGames
             location  == Location(match)
         IN  << Line("BEGIN", <<"VEVENT">>),
                Line("UID", Itoa(match.ID) \o <<"@">> \o baseURL),
                Line("DTSTAMP", DTStamp(startTime)),
                Line("DTSTART", FormatUTC(startTime)),
                Line("DTEND", FormatUTC(endTime)),
                Line("URL", baseURL),
                Line("SUMMARY", escapeICS(Summary(match, hideScores))),
                Line("DESCRIPTION", escapeICS(Description(match, hideScores))) >>
             \o (IF location # <<>> THEN <<Line("LOCATION", escapeICS(location))>> ELSE <<>>)
             \o << Line("STATUS", <<"CONFIRMED">>), Line("END", <<"VEVENT">>) >>

\* mutant: the events are written last match first
RECURSIVE EventsReversed(_, _, _)
EventsReversed(ms, hideScores, baseURL) ==
    IF ms = <<>> THEN <<>>
    ELSE EventsReversed(Tail(ms), hideScores, baseURL) \o Event(Head(ms), hideScores, baseURL)

\* lines 21-108: the loop over the matches, in the order of the slice
RECURSIVE Events(_, _, _)
Events(ms, hideScores, baseURL) ==
    IF ms = <<>> THEN <<>>
    ELSE Event(Head(ms), hideScores, baseURL) \o Events(Tail(ms), hideScores, baseURL)

\* generateICS(matches, hideScores, baseURL) of ics_generator.go, line by line
generateICSLines(ms, hideScores, baseURL) ==
    << Line("BEGIN", <<"VCALENDAR">>), Line("VERSION", <<"2.0">>),
       Line("PRODID", <<"-//EsportsCalendar//EN">>), Line("CALSCALE", <<"GREGORIAN">>),
       Line("X-WR-CALNAME", <<"Esports Calendar">>), Line("X-WR-TIMEZONE", <<"UTC">>) >>
    \o Events(ms, hideScores, baseURL)
    \o << Line("END", <<"VCALENDAR">>) >>

\* the rows the calendar query hands to generateICS: every text field holds
\* the characters that need escaping; the shape decides which fields are set
ICSText == <<"a", BS, ",", ";", LF, "n">>

ICSShapes == 1..5

ICSRow(shape, finished) ==
    [ID                |-> shape,
     Name              |-> ICSText,
     GameName          |-> <<"Game">>,
     TournamentName    |-> IF shape \in {1, 3} THEN ICSText ELSE <<>>,
     LeagueName        |-> IF shape \in {1, 2, 5} THEN ICSText ELSE <<>>,
     SeriesName        |-> IF shape \in {1, 3, 5} THEN <<"S", ";">> ELSE <<>>,
     Team1Name         |-> [Valid |-> shape # 3, String |-> ICSText],
     Team2Name         |-> [Valid |-> shape # 2, String |-> <<"B">>],
     ExpectedStartTime |-> [Valid |-> shape # 5, Time |-> 20 + shape],
     AmountOfGames     |-> shape,
     Finished          |-> finished,
     Team1Score        |-> IF finished THEN 2 ELSE 0,
     Team2Score        |-> IF finished THEN 1 ELSE 0]

ICSRows == {ICSRow(shape, finished) : shape \in ICSShapes, finished \in BOOLEAN}

ICSLists == UNION {[1..n -> ICSRows] : n \in 0..MaxICSMatches}

BaseURLs == {<<"https://a.test">>, <<"https://b.test">>}

textFrame == <<fetchVars, webVars, cacheVars, mainVars>>

TextIdle ==
    /\ textCase = "none"
    /\ textArgs = <<>>
    /\ textOut = <<>>

Returned(value) ==
    /\ Len(textOut) < TextCalls
    /\ textOut' = Append(textOut, [at |-> now, out |-> value])
    /\ UNCHANGED <<now, textFrame, textCase, textArgs>>

CallGenerateICS ==
    /\ textCase = "generateICS"
    /\ Returned(generateICSLines(textArgs.matches, textArgs.hideScores, textArgs.baseURL))

CallEscapeICS ==
    /\ textCase = "escapeICS"
    /\ Returned(escapeICS(textArgs.s))

\* selections objects: game-id keys (one of them not a number) with a full
\* entry or a value that is not an object
SelectionKeys == {"1", "2", "x"}

SelectionValues == {EntryA, EntryB, Num(3)}

SelectionObjects == UNION {[K -> SelectionValues] : K \in SUBSET SelectionKeys}

BodyShapes == {"wrapped", "flag first", "unwrapped"}

\* the request body for a selections object S and flag b, in one shape
BodyOf(S, b, shape) ==
    LET sel == <<"selections", [obj |-> S]>>
        hs  == <<"hideScores", [bool |-> b]>>
    IN  [valid   |-> TRUE,
         spaces  |-> 0,
         members |-> CASE shape = "wrapped"    -> <<sel, hs>>
                       [] shape = "flag first" -> <<hs, sel>>
                       [] OTHER                -> Marshal(S)]

\* PreviewHandler, part_004 lines 301-332
PreviewParse(body) ==
    LET requestBody == DecodeJSON(body.members)
    IN  [accepted   |-> body.valid,
         f          |-> parseSelections(SelectionsOf(requestBody)),
         hideScores |-> HideScoresOf(requestBody)]

\* CalendarHandler, part_008 lines 129-153, on the value_list of a mapping
CalendarParse(valueList) ==
    LET storedData == DecodeJSON(valueList)
    IN  [accepted   |-> TRUE,
         f          |-> parseSelections(SelectionsOf(storedData)),
         hideScores |-> HideScoresOf(storedData)]

\* the JSON objects a client exports: a selections object, bare or wrapped
ExportObjects ==
    SelectionObjects
    \cup {[k \in {"selections", "hideScores"} |->
             IF k = "selections" THEN [obj |-> S] ELSE [bool |-> b]] :
           S \in SelectionObjects, b \in BOOLEAN}

MaxSpaces == 1

\* the request bodies that denote the object f: its members in any order,
\* with any amount of whitespace
BodiesOf(f) ==
    {[valid |-> TRUE, spaces |-> n, members |-> [i \in 1..Cardinality(DOMAIN f) |-> <<p[i], f[p[i]]>>]] :
        n \in 0..MaxSpaces,
        p \in {q \in [1..Cardinality(DOMAIN f) -> DOMAIN f] :
                  \A i, j \in 1..Cardinality(DOMAIN f) : q[i] = q[j] => i = j}}

\* ExportHandler, part_008 lines 20-58: decode, re-serialize, hash, insert
\* (here into an empty table), answer with the hash
CallExport ==
    /\ textCase = "export"
    /\ \E body \in BodiesOf(textArgs.f) :
          LET jsonBytes == Canonical(body)
              hash      == generateHash(jsonBytes)
          IN  Returned([body |-> body, hash |-> hash,
                        rows |-> InsertURLMapping(<<>>, hash, jsonBytes, now)])

\* the three selection queries, each run on its own against the store
CallFutureQuery ==
    /\ textCase = "queries"
    /\ \E tieAsc \in BOOLEAN :
          Returned([query |-> "future", limit |-> totalLimit,
                    rows  |-> GetFutureMatchesBySelections(textArgs.t, textArgs.f,
                                                           totalLimit, tieAsc)])

CallPastQuery ==
    /\ textCase = "queries"
    /\ \E tieAsc \in BOOLEAN :
          Returned([query |-> "past", limit |-> totalLimit,
                    rows  |-> GetPastMatchesBySelections(textArgs.t, textArgs.f,
                                                         totalLimit, tieAsc)])

CallCalendarQuery ==
    /\ textCase = "queries"
    /\ \E tieAsc \in BOOLEAN :
          Returned([query |-> "calendar", limit |-> NumMatches + 1,
                    rows  |-> GetCalendarMatchesBySelections(textArgs.t, textArgs.f, tieAsc)])

CallPreviewParse ==
    /\ textCase = "selections"
    /\ \E shape \in BodyShapes :
          Returned([handler |-> "preview", shape |-> shape,
                    parsed  |-> PreviewParse(BodyOf(textArgs.S, textArgs.b, shape))])

\* the calendar handler reads what ExportHandler stored for the body
CallCalendarParse ==
    /\ textCase = "selections"
    /\ \E shape \in BodyShapes :
          Returned([handler |-> "calendar", shape |-> shape,
                    parsed  |-> CalendarParse(Canonical(BodyOf(textArgs.S, textArgs.b, shape)))])

\* parseSelections called on its own, as the loop of utils.go lines 32-81
\* runs it: the keys of the Go map are visited in an order of the runtime's
\* choosing.  Keys: two game ids, a word, a number outside 32 bits.
ParseKeys == {"1", "2", "x", "4294967297"}

\* values: full entries; an entry whose arrays hold a string and the
\* fraction 5/2 and whose tier is 0; an entry with no tier and leagues that
\* is not an array; entries with tier 3 and tier -1; a value that is no object
ParseValues ==
    { EntryB,
      [obj |-> [leagues |-> Arr(<<Num(1), [str |-> "a"], [num2 |-> 5]>>),
                teams   |-> Arr(<<[str |-> "b"], Num(3)>>),
                maxTier |-> Num(0)]],
      [obj |-> [leagues |-> [str |-> "all"], teams |-> Arr(<<Num(1)>>)]],
      GameEntry(<<>>, <<>>, 3),
      GameEntry(<<Num(1)>>, <<>>, -1),
      Num(3) }

ParseObjects == UNION {[K -> ParseValues] : K \in SUBSET ParseKeys}

\* the orders in which a range loop may visit the keys K
Orders(K) ==
    {q \in [1..Cardinality(K) -> K] : \A i, j \in 1..Cardinality(K) : q[i] = q[j] => i = j}

\* lines 48-54 and 57-63: the elements of selectionMap[field] that are
\* float64, converted with int32(), in array order
FloatsOf(selectionMap, field) ==
    IF field \in DOMAIN selectionMap /\ "arr" \in DOMAIN selectionMap[field]
    THEN LET a    == selectionMap[field].arr
             nums == SelectSeq(a, LAMBDA e : "num2" \in DOMAIN e)
         IN  [i \in 1..Len(nums) |-> Int32(nums[i].num2)]
    ELSE <<>>

\* mutant: the lowest tier is kept (the loop of part_005 lines 661-666)
TierStepMin(maxTier, tier) == IF tier < maxTier THEN tier ELSE maxTier

\* lines 73-76: if tier > maxTier { maxTier = tier }
TierStep(maxTier, tier) == IF tier > maxTier THEN tier ELSE maxTier

\* one iteration of the loop, lines 33-77
ParseEntry(acc, gameIDStr, selectionData) ==
    LET gameID == ParseInt(gameIDStr)
    IN  IF ~gameID.ok THEN acc
        ELSE IF ~IsObj(selectionData)
        THEN [acc EXCEPT !.gameIDs = Append(@, gameID.n)]
        ELSE LET selectionMap == selectionData.obj
                 tierOk == "maxTier" \in DOMAIN selectionMap
                              /\ "num2" \in DOMAIN selectionMap["maxTier"]
             IN  [gameIDs   |-> Append(acc.gameIDs, gameID.n),
                  leagueIDs |-> acc.leagueIDs \o FloatsOf(selectionMap, "leagues"),
                  teamIDs   |-> acc.teamIDs \o FloatsOf(selectionMap, "teams"),
                  maxTier   |-> IF tierOk
                                THEN TierStep(acc.maxTier,
                                              Int32(selectionMap["maxTier"].num2))
                                ELSE acc.maxTier]

RECURSIVE ParseLoop(_, _, _)
ParseLoop(selections, order, acc) ==
    IF order = <<>> THEN acc
    ELSE ParseLoop(selections, Tail(order),
                   ParseEntry(acc, Head(order), selections[Head(order)]))

\* lines 31-32: nil slices and maxTier := int32(1), then the loop
parseSelectionsIn(selections, order) ==
    ParseLoop(selections, order,
              [gameIDs |-> <<>>, leagueIDs |-> <<>>, teamIDs |-> <<>>, maxTier |-> 1])

CallParseSelections ==
    /\ textCase = "parseSelections"
    /\ \E order \in Orders(DOMAIN textArgs.selections) :
          Returned(parseSelectionsIn(textArgs.selections, order))

\* time passes between the calls of generateICS
TextTick ==
    /\ textCase = "generateICS"
    /\ now < MaxTextTicks
    /\ now' = now + 1
    /\ UNCHANGED <<textFrame, textVars>>

(***************************************************************************)
(* main: after signal.Notify the server goroutine listens and serves while *)
(* the main goroutine waits on the quit channel; then server.Shutdown with *)
(* a 10 second context, then Cleanup.  The clock unit here is one second.  *)
(***************************************************************************)
MaxInflight == 2

shutdownTimeout == 10

mainFrame == <<now, fetchVars, webVars, cacheVars, textVars>>

MainIdle ==
    /\ mpc = "none"
    /\ listener = "none"
    /\ quit = 0
    /\ inflight = 0
    /\ elapsed = 0
    /\ dbPool = "open"
    /\ cacheClient = "none"
    /\ signalled = FALSE
    /\ shutdownDone = ""

\* line 120: net.Listen succeeded and the server accepts connections; once
\* Shutdown was called ListenAndServe returns ErrServerClosed instead
ListenOK ==
    /\ listener = "starting"
    /\ listener' = IF mpc = "serving" THEN "listening" ELSE "closed"
    /\ UNCHANGED <<mainFrame, mpc, quit, inflight, elapsed, dbPool, cacheClient,
                   signalled, shutdownDone>>

\* lines 120-122: ListenAndServe returned an error that is not
\* ErrServerClosed; logger.Fatal ends the process
ListenFatal ==
    /\ listener = "starting"
    /\ mpc # "exited"
    /\ listener' = "failed"
    /\ mpc' = "exited"
    /\ UNCHANGED <<mainFrame, quit, inflight, elapsed, dbPool, cacheClient,
                   signalled, shutdownDone>>

\* the operating system delivers SIGINT or SIGTERM; signal.Notify sends
\* without blocking into a channel of capacity 1
Signal ==
    /\ mpc # "exited"
    /\ quit' = 1
    /\ signalled' = TRUE
    /\ UNCHANGED <<mainFrame, mpc, listener, inflight, elapsed, dbPool, cacheClient,
                   shutdownDone>>

RequestArrives ==
    /\ mpc # "exited"
    /\ listener = "listening"
    /\ inflight < MaxInflight
    /\ inflight' = inflight + 1
    /\ UNCHANGED <<mainFrame, mpc, listener, quit, elapsed, dbPool, cacheClient,
                   signalled, shutdownDone>>

RequestDone ==
    /\ mpc # "exited"
    /\ inflight > 0
    /\ inflight' = inflight - 1
    /\ UNCHANGED <<mainFrame, mpc, listener, quit, elapsed, dbPool, cacheClient,
                   signalled, shutdownDone>>

\* lines 128-137: <-quit, the context with its timeout, server.Shutdown(ctx)
\* begins: the listener is closed, and a server that has not listened yet
\* returns ErrServerClosed when it gets there
MainReceive ==
    /\ mpc = "serving"
    /\ quit > 0
    /\ quit' = quit - 1
    /\ mpc' = "shutdown"
    /\ elapsed' = 0
    /\ listener' = IF listener = "listening" THEN "closed" ELSE listener
    /\ UNCHANGED <<mainFrame, inflight, dbPool, cacheClient, signalled, shutdownDone>>

\* the grace period runs
MainTick ==
    /\ mpc = "shutdown"
    /\ elapsed < shutdownTimeout
    /\ elapsed' = elapsed + 1
    /\ UNCHANGED <<mainFrame, mpc, listener, quit, inflight, dbPool, cacheClient,
                   signalled, shutdownDone>>

\* mutant: the server is closed at once, as server.Close() does
ShutdownReturnsAtOnce(n, e) == TRUE

\* server.Shutdown(ctx) returns when no connection is active or ctx is done
ShutdownReturns(n, e) == n = 0 \/ e >= shutdownTimeout

\* line 137 returns, line 144 calls Cleanup
ShutdownReturn ==
    /\ mpc = "shutdown"
    /\ ShutdownReturns(inflight, elapsed)
    /\ shutdownDone' = IF inflight = 0 THEN "drained"
                       ELSE IF elapsed >= shutdownTimeout THEN "deadline" ELSE "early"
    /\ mpc' = "cleanup"
    /\ UNCHANGED <<mainFrame, listener, quit, inflight, elapsed, dbPool, cacheClient,
                   signalled>>

\* Cleanup, lines 189-193: the database pool
CleanupDB ==
    /\ mpc = "cleanup"
    /\ dbPool' = "closed"
    /\ mpc' = "cleanup_cache"
    /\ UNCHANGED <<mainFrame, listener, quit, inflight, elapsed, cacheClient,
                   signalled, shutdownDone>>

\* Cleanup, lines 195-200: the Redis client when there is one; main returns
CleanupCache ==
    /\ mpc = "cleanup_cache"
    /\ cacheClient' = IF cacheClient = "open" THEN "closed" ELSE cacheClient
    /\ mpc' = "exited"
    /\ UNCHANGED <<mainFrame, listener, quit, inflight, elapsed, dbPool, signalled,
                   shutdownDone>>

(***************************************************************************)
(* Initial states.  Postgres and Redis outlive the process: a start may    *)
(* find a mapping row and cache entries left by an earlier run.            *)
(***************************************************************************)
BodyA == [valid |-> TRUE, spaces |-> 0, members |-> << <<"1", EntryA>> >>]

HashA == generateHash(Canonical(BodyA))

OldRows == <<NewRow(HashA, Canonical(BodyA), WebStart - 10)>>

OldKeys ==
    [k \in {<<icsPrefix, HashA>>, <<dataPrefix, <<"league-options", 1>>>>} |->
        IF k[1] = icsPrefix
        THEN [val |-> generateICS(<<>>, FALSE), exp |-> WebStart + icsCacheTTL]
        ELSE [val |-> OptionsJSON("league-options", <<>>), exp |-> WebStart + dataCacheTTL]]

FetchIdle ==
    /\ filter = [games |-> {}, leagues |-> {}, teams |-> {}, maxTier |-> 1]
    /\ fpc = "done"
    /\ futureMatches = <<>>
    /\ pastMatches = <<>>
    /\ matches = <<>>
    /\ showingPast = FALSE
    /\ fetchErr = FALSE
    /\ queries = 0
    /\ nowFuture = 0
    /\ nowPast = 0

WebIdle ==
    /\ initErr = "none"
    /\ RedisCache = "nil"
    /\ wpc = [p \in WProcs |-> "idle"]
    /\ wloc = [p \in WProcs |-> Locals0]
    /\ resp = [p \in WProcs |-> NoResponse]
    /\ nreq = 0
    /\ lookups = [h \in HashSpace |-> 0]
    /\ updFails = [h \in HashSpace |-> 0]
    /\ cacheOps = 0

NoRead ==
    [key |-> <<>>, found |-> FALSE, val |-> "", err |-> FALSE, clean |-> FALSE,
     expect |-> "", neverSet |-> FALSE]

NeverSet == [ok |-> FALSE, val |-> "", exp |-> 0, ever |-> FALSE]

\* NewICSCache: an empty map and an empty list
NewICSCache ==
    /\ muWriter = 0
    /\ entries = <<>>
    /\ lruList = <<>>
    /\ objs = <<>>
    /\ files = [k \in CacheKeys |-> "none"]
    /\ settled = [k \in CacheKeys |-> Unsettled]
    /\ everSet = [k \in CacheKeys |-> FALSE]
    /\ recency = <<>>

\* a cache that Set("h1", "v1") has filled at time 0
OneEntry ==
    /\ muWriter = 0
    /\ entries = [k \in {"h1"} |-> 1]
    /\ lruList = <<1>>
    /\ objs = <<[hash |-> "h1", lastUpdate |-> 0]>>
    /\ files = [k \in CacheKeys |-> IF k = "h1" THEN "v1" ELSE "none"]
    /\ settled = [k \in CacheKeys |-> IF k = "h1" THEN [ok |-> TRUE, val |-> "v1", at |-> 0]
                                      ELSE Unsettled]
    /\ everSet = [k \in CacheKeys |-> k = "h1"]
    /\ recency = <<"h1">>

CallsIdle ==
    /\ cpc = [p \in WProcs |-> "idle"]
    /\ cloc = [p \in WProcs |-> CLocals0]
    /\ cops = 0
    /\ unguarded = {}
    /\ readDuringWrite = FALSE
    /\ rsettled = [k \in RedisKeys |-> NeverSet]
    /\ rlast = NoRead

CacheIdle == NewICSCache /\ CallsIdle

Init ==
    /\ CacheIdle
    /\ TextIdle
    /\ MainIdle
    /\ now = WebStart
    /\ store = StoreOf("spread")
    /\ FetchIdle
    /\ server = "boot"
    /\ url_mappings \in {<<>>, OldRows}
    /\ redis \in {<<>>, OldKeys}
    /\ WebIdle

Next ==
    \/ InitMiddleHandler
    \/ \E p \in WProcs :
          \/ ExportHandler(p) \/ ExportInsert(p)
          \/ CalendarHandler(p) \/ CalendarUpdate(p) \/ CalendarCacheGet(p)
          \/ CalendarQuery(p) \/ CalendarCacheSet(p)
          \/ OptionsHandler(p) \/ OptionsQuery(p) \/ OptionsCacheSet(p)
          \/ PreviewHandler(p)
    \/ Tick

Spec == Init /\ [][Next]_vars

FetchInit ==
    /\ CacheIdle
    /\ TextIdle
    /\ MainIdle
    /\ FetchCall
    /\ server = "running"
    /\ url_mappings = <<>>
    /\ redis = <<>>
    /\ WebIdle

SpecFetch == FetchInit /\ [][FetchNext]_vars

CacheInit ==
    /\ TextIdle
    /\ MainIdle
    /\ now = 0
    /\ store = StoreOf("distinct")
    /\ FetchIdle
    /\ server = "running"
    /\ url_mappings = <<>>
    /\ redis = <<>>
    /\ WebIdle
    /\ NewICSCache \/ OneEntry
    /\ CallsIdle

CacheNext ==
    \/ \E p \in WProcs :
          \/ GetLookup(p) \/ GetRead(p) \/ GetPromote(p)
          \/ SetBegin(p) \/ SetWrite(p)
          \/ Clear(p)
    \/ CacheSetICS \/ CacheGetICS \/ CacheSetBytes \/ CacheGetBytes
    \/ CacheTick

SpecCache == CacheInit /\ [][CacheNext]_vars

TextInputs ==
    \/ /\ textCase = "generateICS"
       /\ textArgs \in [matches : ICSLists, hideScores : BOOLEAN, baseURL : BaseURLs]
    \/ /\ textCase = "escapeICS"
       /\ textArgs \in [s : Strings]
    \/ /\ textCase = "selections"
       /\ textArgs \in [S : SelectionObjects, b : BOOLEAN]
    \/ /\ textCase = "export"
       /\ textArgs \in [f : ExportObjects]
    \/ /\ textCase = "queries"
       /\ textArgs \in [f : Filters, t : Times]

TextInit ==
    /\ MainIdle
    /\ now = 0
    /\ store = StoreOf("distinct")
    /\ FetchIdle
    /\ server = "running"
    /\ url_mappings = <<>>
    /\ redis = <<>>
    /\ WebIdle
    /\ CacheIdle
    /\ TextInputs
    /\ textOut = <<>>

TextNext ==
    \/ CallGenerateICS
    \/ CallEscapeICS
    \/ CallPreviewParse
    \/ CallCalendarParse
    \/ CallExport
    \/ CallFutureQuery
    \/ CallPastQuery
    \/ CallCalendarQuery
    \/ TextTick

SpecText == TextInit /\ [][TextNext]_vars

ParseInit ==
    /\ MainIdle
    /\ now = 0
    /\ store = StoreOf("distinct")
    /\ FetchIdle
    /\ server = "running"
    /\ url_mappings = <<>>
    /\ redis = <<>>
    /\ WebIdle
    /\ CacheIdle
    /\ textCase = "parseSelections"
    /\ textArgs \in [selections : ParseObjects]
    /\ textOut = <<>>

ParseNext == CallParseSelections

SpecParse == ParseInit /\ [][ParseNext]_vars

\* the state after signal.Notify (main.go line 116) and the go statement;
\* InitMiddleHandler has opened the pool and, when Redis answered, the client
MainInit ==
    /\ now = 0
    /\ store = StoreOf("distinct")
    /\ FetchIdle
    /\ url_mappings = <<>>
    /\ redis = <<>>
    /\ WebIdle
    /\ CacheIdle
    /\ TextIdle
    /\ server = "running"
    /\ mpc = "serving"
    /\ listener = "starting"
    /\ quit = 0
    /\ inflight = 0
    /\ elapsed = 0
    /\ dbPool = "open"
    /\ cacheClient \in {"open", "none"}
    /\ signalled = FALSE
    /\ shutdownDone = ""

MainNext ==
    \/ ListenOK \/ ListenFatal
    \/ Signal
    \/ RequestArrives \/ RequestDone
    \/ MainReceive \/ MainTick \/ ShutdownReturn
    \/ CleanupDB \/ CleanupCache

\* the main goroutine and the clock make progress; requests need not end
SpecMain ==
    /\ MainInit /\ [][MainNext]_vars
    /\ WF_vars(MainReceive) /\ WF_vars(MainTick) /\ WF_vars(ShutdownReturn)
    /\ WF_vars(CleanupDB) /\ WF_vars(CleanupCache)

(***************************************************************************)
(* Properties of fetchMatches (checked under SpecFetch).                   *)
(***************************************************************************)
Ascending(s) == \A i \in 1..(Len(s) - 1) : ById(s[i]).start <= ById(s[i + 1]).start

StrictlyAscending(s) == \A i \in 1..(Len(s) - 1) : ById(s[i]).start < ById(s[i + 1]).start

\* C1: with no game ids fetchMatches returns the empty list, usingPastFallback
\* = FALSE and no error, and no query is ever issued, whatever league ids,
\* team ids and tier ceiling the filter carries.
C1_NoGamesNoQuery ==
    filter.games = {} =>
        /\ queries = 0
        /\ fpc \in {"call", "done"}
        /\ fpc = "done" => (matches = <<>> /\ showingPast = FALSE /\ fetchErr = FALSE)

C1_Witness ==
    /\ fpc = "done"
    /\ filter.games = {}
    /\ filter.leagues # {}
    /\ filter.teams # {}
    /\ filter.maxTier > 1

\* C2 as stated: with at least totalLimit stored future matches satisfying the
\* filter, a successful call returns exactly totalLimit matches, all starting
\* at or after the query's NOW(), STRICTLY ascending by start time, and
\* usingPastFallback = FALSE.
C2_StrictlyAscending ==
    (fpc = "done" /\ ~fetchErr /\ Cardinality(FutureRows(nowFuture, filter)) >= totalLimit) =>
        /\ Len(matches) = totalLimit
        /\ \A i \in 1..Len(matches) :
              ById(matches[i]).startValid /\ ById(matches[i]).start >= nowFuture
        /\ StrictlyAscending(matches)
        /\ showingPast = FALSE

\* C2 amended: the same, with the list ascending by start time but not
\* strictly: two matches of equal start time may be adjacent.
C2_TenFutureAscending ==
    (fpc = "done" /\ ~fetchErr /\ Cardinality(FutureRows(nowFuture, filter)) >= totalLimit) =>
        /\ Len(matches) = totalLimit
        /\ \A i \in 1..Len(matches) :
              ById(matches[i]).startValid /\ ById(matches[i]).start >= nowFuture
        /\ Ascending(matches)
        /\ Cardinality(Range(matches)) = totalLimit
        /\ showingPast = FALSE

C2_Witness ==
    /\ fpc = "done"
    /\ ~fetchErr
    /\ Cardinality(FutureRows(nowFuture, filter)) > totalLimit
    /\ Len(matches) = totalLimit
    /\ nowFuture > 0

\* C3: usingPastFallback is TRUE exactly when the future query returned no
\* match and the past query returned at least one; it is FALSE when both
\* return nothing and whenever a future match is returned; when it is TRUE
\* every returned match starts before the past query's NOW() and the list is
\* ascending by start time.
C3_PastFallbackIff ==
    fpc = "done" =>
        /\ showingPast <=> (~fetchErr /\ queries = 2 /\ Len(futureMatches) = 0
                              /\ Len(pastMatches) > 0)
        /\ (~fetchErr /\ Len(futureMatches) = 0 /\ Len(pastMatches) = 0) => ~showingPast
        /\ (\E i \in 1..Len(matches) : matches[i] \in Range(futureMatches)) => ~showingPast
        /\ showingPast =>
              /\ matches = pastMatches
              /\ \A i \in 1..Len(matches) :
                    ById(matches[i]).startValid /\ ById(matches[i]).start < nowPast
              /\ Ascending(matches)

C3_Witness ==
    /\ fpc = "done"
    /\ showingPast
    /\ Len(matches) > 1
    /\ Len(matches) < Cardinality(PastRows(nowPast, filter))


GamesOnly == [games |-> {1}, leagues |-> {}, teams |-> {}, maxTier |-> 1]

\* C14: with the filter {games: [1], leagues: [], teams: [], maxTier: 1}, one
\* stored future match of game 1 and no past match, fetchMatches returns
\* exactly that match and usingPastFallback = false.
C14_GamesOnlyExample ==
    (/\ fpc = "done" /\ ~fetchErr
     /\ store = StoreOf("example")
     /\ filter = GamesOnly)
        => (matches = <<ExampleRow.id>> /\ ~showingPast)

\* C18: the list fetchMatches returns is in ascending order of start time
\* over its whole length, the boundary between the past matches and the
\* future matches included.
C18_AscendingThroughout ==
    (fpc = "done" /\ ~fetchErr) => Ascending(matches)

PastPart == SubSeq(matches, 1, Len(matches) - Len(futureMatches))

C21_NoDuplicateIds ==
    (fpc = "done" /\ ~fetchErr) =>
        /\ Cardinality(Range(matches)) = Len(matches)
        /\ Range(futureMatches) \cap Range(pastMatches) = {}

(***************************************************************************)
(* Properties of the HTTP handlers (checked under Spec).                   *)
(***************************************************************************)
Finished(p, handler) ==
    wpc[p] = "idle" /\ wloc[p].handler = handler /\ resp[p].status # 0

RowsOf(h) == {i \in 1..Len(url_mappings) : url_mappings[i].hashed_key = h}

C4_ExportState ==
    /\ \A h \in HashSpace : Cardinality(RowsOf(h)) <= 1
    /\ \A p \in WProcs :
          (Finished(p, "export") /\ resp[p].status # 400) =>
             /\ resp[p].status \in {200, 500}
             /\ (resp[p].status = 500) <=> wloc[p].dbFailed
             /\ (resp[p].status = 200) =>
                   /\ resp[p].body = generateHash(wloc[p].data)
                   /\ \E i \in 1..Len(url_mappings) :
                         /\ RowsOf(resp[p].body) = {i}
                         /\ url_mappings[i].value_list = wloc[p].data
    /\ \A p \in WProcs, q \in WProcs :
          ( /\ Finished(p, "export") /\ resp[p].status = 200
            /\ Finished(q, "export") /\ resp[q].status = 200
            /\ wloc[p].data = wloc[q].data )
          => resp[p].body = resp[q].body

C4_ExportStep ==
    \A p \in WProcs :
       (wpc[p] = "export_insert" /\ wpc'[p] = "idle") =>
          /\ \A i \in 1..Len(url_mappings) :
                Len(url_mappings') >= i /\ url_mappings'[i] = url_mappings[i]
          /\ HasRow(url_mappings, wloc[p].hash) => (url_mappings' = url_mappings)

\* C4: two exports of one canonical payload, in sequence or overlapping, both
\* answer 200 with the same hash unless the insert statement itself failed;
\* the hash has exactly one row, holding the canonical payload; an export
\* of a hash that already has a row leaves the whole table as it was.
C4_ExportIdempotent == []C4_ExportState /\ [][C4_ExportStep]_vars

C4_Witness ==
    /\ \A p \in WProcs : Finished(p, "export") /\ resp[p].status = 200
    /\ resp[1].body = resp[2].body
    /\ \E i \in 1..Len(url_mappings) :
          /\ RowsOf(resp[1].body) = {i}
          /\ url_mappings[i].created_at < now

C5_Counted ==
    \A h \in HashSpace :
       /\ \A i \in RowsOf(h) :
             url_mappings[i].access_count = lookups[h] - updFails[h]
       /\ (RowsOf(h) = {}) => (lookups[h] = 0)

C5_NeverDecreases ==
    \A i \in 1..Len(url_mappings) :
       /\ Len(url_mappings') >= i
       /\ url_mappings'[i].hashed_key = url_mappings[i].hashed_key
       /\ url_mappings'[i].access_count >= url_mappings[i].access_count

\* C5 as stated: every calendar request that found its mapping has added one
\* to the row's access_count
C5_ExactlyOnePerRequest ==
    \A h \in HashSpace :
       \A i \in RowsOf(h) :
          (\A p \in WProcs : ~(wpc[p] = "cal_update" /\ wloc[p].hash = h))
          => url_mappings[i].access_count = lookups[h]

\* C5 amended: access_count equals the number of calendar requests whose
\* count update succeeded (cache hit or miss alike, concurrent or not: no
\* update is lost); a failed update adds nothing; no step of any handler
\* removes a row or lowers its access_count.
C5_AccessCount == []C5_Counted /\ [][C5_NeverDecreases]_vars

C5_Witness ==
    /\ \A p \in WProcs :
          Finished(p, "calendar") /\ resp[p].status = 200 /\ wloc[p].hash = HashA
          /\ ~wloc[p].updFailed
    /\ wloc[1].source = "cache" /\ wloc[2].source = "db"
    /\ \E i \in RowsOf(HashA) : url_mappings[i].access_count = NumProcs


\* the content a calendar request for hash h may have generated so far
Recomputed(h, body) ==
    \E i \in RowsOf(h), t \in WebStart..now, tieAsc \in BOOLEAN :
       body = CalendarContent(url_mappings[i].value_list, t, tieAsc)

IsOptions(p) == wloc[p].handler \in OptionKinds

C9_NoCacheMode ==
    /\ cacheOps = 0
    /\ redis \in {<<>>, OldKeys}
    /\ \A p \in WProcs :
          /\ wpc[p] \notin {"cal_cache", "cal_set", "opt_set"}
          /\ wloc[p].source # "cache"
          /\ resp[p].xcache # "HIT"
          /\ (Finished(p, "calendar") /\ resp[p].status = 200)
             => (wloc[p].source = "db" /\ Recomputed(wloc[p].hash, resp[p].body))
          /\ (wpc[p] = "idle" /\ IsOptions(p) /\ resp[p].status = 200)
             => /\ wloc[p].source = "db"
                /\ resp[p].xcache = "MISS"
                /\ resp[p].body = OptionsJSON(wloc[p].key[1],
                                              OptionsOf(wloc[p].key[1], wloc[p].key[2]))

C10_BestEffort ==
    \A p \in WProcs :
       /\ (Finished(p, "calendar") /\ resp[p].status \notin {400, 404}
              /\ ~wloc[p].dbFailed)
          => /\ resp[p].status = 200
             /\ (wloc[p].source = "db" => Recomputed(wloc[p].hash, resp[p].body))
             /\ resp[p].body = wloc[p].content
       /\ (Finished(p, "calendar") /\ resp[p].status = 500) => wloc[p].dbFailed

C10_Witness ==
    \E p \in WProcs :
       /\ Finished(p, "calendar") /\ resp[p].status = 200
       /\ wloc[p].updFailed /\ wloc[p].setFailed
       /\ Len(resp[p].body[3]) > 1
       /\ \E i \in RowsOf(wloc[p].hash) : url_mappings[i].access_count = 0


\* the step in which goroutine p takes a calendar request
TakesCalendar(p) ==
    /\ nreq' = nreq + 1
    /\ wpc[p] = "idle"
    /\ \A q \in WProcs : (q < p) => (wpc[q] # "idle")
    /\ wloc'[p].handler = "calendar"

C23_Step ==
    \A p \in WProcs :
       (TakesCalendar(p) /\ wloc'[p].hash # <<>> /\ RowsOf(wloc'[p].hash) = {}) =>
          /\ wpc'[p] = "idle"
          /\ resp'[p] = [status |-> 404, body |-> <<"Calendar not found">>, xcache |-> ""]
          /\ wloc'[p].source = "none" /\ wloc'[p].content = <<>>
          /\ UNCHANGED <<url_mappings, redis, cacheOps, lookups, updFails>>

\* C23: CalendarHandler looks the mapping up before it consults the cache.
\* A request for a hash that has no url_mappings row is answered 404 in the
\* step of the lookup, also when Redis holds calendar text under that hash:
\* no content is served, no access count changes, no Redis command and no
\* match query is issued.
C23_MappingFirst == [][C23_Step]_vars

C23_Witness ==
    \E p \in WProcs :
       /\ Finished(p, "calendar") /\ resp[p].status = 404
       /\ wloc[p].hash # UnknownHash /\ ~wloc[p].dbFailed
       /\ RowsOf(wloc[p].hash) = {}
       /\ RedisCache = "client"
       /\ <<icsPrefix, wloc[p].hash>> \in DOMAIN redis
       /\ redis[<<icsPrefix, wloc[p].hash>>].exp > now

\* text is a calendar of the mapping rows of hash h: rendered with the flag
\* the stored payload carries, from matches its selections select
RenderedFor(h, text) ==
    \A i \in RowsOf(h) :
       LET data == DecodeJSON(url_mappings[i].value_list)
           flag == IF "hideScores" \in DOMAIN data /\ "bool" \in DOMAIN data["hideScores"]
                   THEN data["hideScores"].bool ELSE FALSE
           f    == parseSelections(SelectionsOf(data))
       IN  /\ Len(text) = 3
           /\ text = generateICS(text[3], flag)
           /\ \A id \in Range(text[3]) : SelectedBy(ById(id), f)

\* C24: the calendar text Redis holds under a hash, and the text a calendar
\* request for the hash is answered with (from the cache or generated), was
\* rendered by generateICS from the selections and with the hideScores flag
\* of that hash's mapping row, in every interleaving of export and calendar
\* requests.
C24_CacheMatchesMapping ==
    /\ \A h \in HashSpace :
          (<<icsPrefix, h>> \in DOMAIN redis) => RenderedFor(h, redis[<<icsPrefix, h>>].val)
    /\ \A p \in WProcs :
          /\ (Finished(p, "calendar") /\ resp[p].status = 200)
             => (RowsOf(wloc[p].hash) # {} /\ RenderedFor(wloc[p].hash, resp[p].body))
          /\ (wpc[p] = "cal_set") => RenderedFor(wloc[p].hash, wloc[p].content)

C24_Witness ==
    \E p \in WProcs :
       /\ Finished(p, "calendar") /\ resp[p].status = 200 /\ wloc[p].source = "db"
       /\ wloc[p].hash # HashA
       /\ resp[p].body[2] = "scores hidden" /\ Len(resp[p].body[3]) > 0
       /\ <<icsPrefix, wloc[p].hash>> \in DOMAIN redis
       /\ <<icsPrefix, HashA>> \in DOMAIN redis
       /\ redis[<<icsPrefix, HashA>>].val[2] = "scores shown"

\* the option-list entries of the keyspace
OptionKeys(db) == {k \in DOMAIN db : k[1] = dataPrefix}

\* a step of p in which its option-list query failed
QueryFailed(p) == wpc[p] = "opt_query" /\ wpc'[p] = "idle" /\ wloc'[p].dbFailed

C29_Step ==
    \A p \in WProcs :
       /\ QueryFailed(p) =>
             /\ resp'[p].status = 500
             /\ resp'[p].body = OptionsErrorJSON(wloc[p].key[1])
             /\ resp'[p].xcache # "HIT"
             /\ redis' = redis
       /\ (wpc[p] = "opt_query" /\ wpc'[p] = "idle" /\ resp'[p].status = 500)
             => wloc'[p].dbFailed
       /\ (nreq' = nreq + 1 /\ wpc[p] = "idle" /\ (\A q \in WProcs : q < p => wpc[q] # "idle")
              /\ wloc'[p].handler \in OptionKinds /\ wloc'[p].key # <<>>
              /\ CacheEnabled /\ ~RedisGet(redis, <<dataPrefix, wloc'[p].key>>, now).found)
             => wpc'[p] = "opt_query"
       /\ \A k \in OptionKeys(redis') :
             (k \notin OptionKeys(redis) \/ redis'[k] # redis[k]) =>
                \E q \in WProcs :
                   /\ wpc[q] = "opt_set"
                   /\ ~wloc[q].dbFailed
                   /\ k = <<dataPrefix, wloc[q].key>>
                   /\ redis'[k].val = OptionsJSON(wloc[q].key[1],
                                                  OptionsOf(wloc[q].key[1], wloc[q].key[2]))

C29_OnlySuccessStored ==
    \A k \in OptionKeys(redis) : redis[k].val[2] = "json"

\* C29: a failed league-options or team-options query is answered with 500
\* and the error body (error = true, empty list), writes nothing to the
\* cache and sends no X-Cache: HIT, so the next request for the game that
\* finds no cached list queries the data source again; the cache only ever
\* receives the responses of successful queries.
C29_FailureNotCached == [][C29_Step]_vars /\ []C29_OnlySuccessStored

C29_Witness ==
    \E p \in WProcs :
       /\ CacheEnabled
       /\ nreq = MaxRequests
       /\ resp[p].status = 500
       /\ resp[p].body = OptionsErrorJSON("team-options")
       /\ wpc[p] = "opt_query"
       /\ wloc[p].key = <<"team-options", 1>>
       /\ OptionKeys(redis) \subseteq {<<dataPrefix, <<"league-options", 1>>>>}

(***************************************************************************)
(* Properties of the caches (checked under SpecCache).                     *)
(***************************************************************************)
GetDone(p) == cpc[p] = "idle" /\ cloc[p].op = "get"

\* C6 as stated: a Get that follows an undisturbed successful Set returns
\* the value set, and a Get of a key never set finds nothing
C6_SetThenGet ==
    /\ \A p \in WProcs :
          GetDone(p) =>
             /\ cloc[p].clean => (cloc[p].found /\ cloc[p].content = cloc[p].expect)
             /\ cloc[p].neverSet => ~cloc[p].found
    /\ rlast.key # <<>> =>
          /\ rlast.clean => (rlast.found /\ rlast.val = rlast.expect)
          /\ rlast.neverSet => ~rlast.found

\* C6 amended: for ICSCache and for RedisCache (ICS text and bytes), a Get
\* that starts after Set(k, v) returned nil, with no Set of k, eviction,
\* Clear or expiry since, returns (v, true) unless its read of the file or
\* of Redis fails, in which case it reports not-found; a Get of a key that
\* was never set returns not-found.
C6_SetThenGetUnlessReadFails ==
    /\ \A p \in WProcs :
          GetDone(p) =>
             /\ cloc[p].clean =>
                   IF cloc[p].err THEN ~cloc[p].found
                   ELSE cloc[p].found /\ cloc[p].content = cloc[p].expect
             /\ cloc[p].neverSet => ~cloc[p].found
    /\ rlast.key # <<>> =>
          /\ rlast.clean =>
                IF rlast.err THEN ~rlast.found
                ELSE rlast.found /\ rlast.val = rlast.expect
          /\ rlast.neverSet => ~rlast.found

C6_Witness ==
    /\ \E p \in WProcs :
          GetDone(p) /\ cloc[p].clean /\ cloc[p].found /\ cloc[p].content = "v1"
    /\ rlast.key = <<dataPrefix, "h1">>
    /\ rlast.clean /\ rlast.found /\ rlast.val = "v2"
    /\ <<icsPrefix, "h1">> \notin DOMAIN redis

HashesOf(l) == [i \in 1..Len(l) |-> objs[l[i]].hash]

\* C7: the list holds at most maxCacheSize elements, one per map key; its
\* order is the order of the latest Set or promotion of each cached hash, so
\* the element evicted from the back is the least recently used; and no Get
\* returns a hit for an entry that was evicted, after the Get had read it, in
\* favour of an entry nobody has used since that Get began.
C7_StrictLRU ==
    /\ Len(lruList) <= maxCacheSize
    /\ (muWriter = 0) => (Range(HashesOf(lruList)) = DOMAIN entries)
    /\ HashesOf(lruList) = recency
    /\ \A p \in WProcs : (GetDone(p) /\ cloc[p].found) => ~cloc[p].lost

\* C8: no field of an entry is read outside the lock, and no Get reads an
\* entry while a Set of that entry holds the write lock.
C8_LockDiscipline == unguarded = {} /\ ~readDuringWrite

\* the time-to-live of a Redis key, by its prefix
TTLOf(key) == IF key[1] = icsPrefix THEN icsCacheTTL ELSE dataCacheTTL

\* the step of ICSCache.Get that tests the expiry and reads the file
C22_GetStep ==
    \A p \in WProcs :
       (cpc[p] = "get_read" /\ cpc'[p] # "get_read") =>
          LET id     == cloc[p].entry
              h      == cloc[p].hash
              racing == muWriter # 0 /\ cloc[muWriter].entry = id
          IN  /\ (cpc'[p] = "get_promote" /\ cloc'[p].content \in CacheValues) =>
                    /\ settled[h].ok /\ settled[h].val = cloc'[p].content
                    /\ now - settled[h].at <= cacheRefreshTime
              /\ (~racing /\ now - objs[id].lastUpdate > cacheRefreshTime) =>
                    /\ cpc'[p] = "idle" /\ ~cloc'[p].found
                    /\ entries' = entries /\ lruList' = lruList /\ objs' = objs

\* the step of ICSCache.Set that returns nil
C22_SetStep ==
    \A p \in WProcs :
       (cpc[p] = "set_write" /\ cpc'[p] = "idle" /\ ~cloc'[p].err) =>
          LET h == cloc[p].hash
          IN  /\ h \in DOMAIN entries'
              /\ objs'[entries'[h]].lastUpdate = now
              /\ files'[h] = cloc[p].val
              /\ lruList'[1] = entries'[h]

\* a Redis read that finds a value, and a Redis write
C22_RedisStep ==
    /\ (rlast' # rlast /\ rlast'.found) =>
          /\ rlast'.key \in DOMAIN redis
          /\ rlast'.val = redis[rlast'.key].val
          /\ now < redis[rlast'.key].exp
    /\ \A k \in DOMAIN redis' :
          (k \notin DOMAIN redis \/ redis'[k] # redis[k]) => (redis'[k].exp = now + TTLOf(k))

C30_MapMatchesList ==
    /\ Range(HashesOf(lruList)) = DOMAIN entries
    /\ \A i \in 1..Len(lruList) : entries[objs[lruList[i]].hash] = lruList[i]
    /\ \A i, j \in 1..Len(lruList) :
          (objs[lruList[i]].hash = objs[lruList[j]].hash) => (i = j)
    /\ Len(lruList) <= maxCacheSize
    /\ Cardinality(DOMAIN entries) <= maxCacheSize

\* a Set of a new hash found the cache full, evicted, and then failed
C30_Witness ==
    \E p \in WProcs :
       /\ cpc[p] = "idle"
       /\ cloc[p].op = "set" /\ cloc[p].err
       /\ cloc[p].hash \notin DOMAIN entries
       /\ Len(lruList) = maxCacheSize - 1
       /\ Len(objs) >= maxCacheSize

(***************************************************************************)
(* Properties of the calendar text (checked under SpecText).               *)
(***************************************************************************)
Returns(fn) == IF textCase = fn THEN 1..Len(textOut) ELSE {}

\* the lines named name, with their positions
LinesNamed(out, name) == {i \in 1..Len(out) : out[i].name = name}

\* C11: generateICS is deterministic.  Calls with the same match list,
\* hideScores flag and base URL return identical text whenever they are
\* made, and every DTSTAMP line carries the start time of its DTSTART line.
C11_Deterministic ==
    /\ \A i, j \in Returns("generateICS") : textOut[i].out = textOut[j].out
    /\ \A i \in Returns("generateICS") :
          \A k \in LinesNamed(textOut[i].out, "DTSTAMP") :
             /\ textOut[i].out[k + 1].name = "DTSTART"
             /\ textOut[i].out[k + 1].value = textOut[i].out[k].value

C11_Witness ==
    /\ textCase = "generateICS"
    /\ Len(textOut) = 2
    /\ textOut[1].at < textOut[2].at
    /\ Cardinality(LinesNamed(textOut[2].out, "DTSTAMP")) = 2

\* every backslash starts one of the four two-character escapes, and no
\* comma, semicolon or line feed stands outside an escape
RECURSIVE WellEscaped(_)
WellEscaped(s) ==
    IF s = <<>> THEN TRUE
    ELSE IF Head(s) = BS
    THEN /\ Len(s) >= 2
         /\ s[2] \in {BS, ",", ";", "n"}
         /\ WellEscaped(Tail(Tail(s)))
    ELSE /\ Head(s) \notin {",", ";", LF}
         /\ WellEscaped(Tail(s))

\* each character escaped once, on its own
RECURSIVE EscapedOnce(_)
EscapedOnce(s) ==
    IF s = <<>> THEN <<>>
    ELSE (CASE Head(s) = BS  -> <<BS, BS>>
            [] Head(s) = "," -> <<BS, ",">>
            [] Head(s) = ";" -> <<BS, ";">>
            [] Head(s) = LF  -> <<BS, "n">>
            [] OTHER         -> <<Head(s)>>) \o EscapedOnce(Tail(s))

FreeText == {"SUMMARY", "DESCRIPTION", "LOCATION"}

\* C12: the result of escapeICS is well escaped for every input, each
\* character is escaped exactly once, and the SUMMARY, DESCRIPTION and
\* LOCATION values of the calendar are escaped.
C12_Escaped ==
    /\ \A i \in Returns("escapeICS") :
          /\ WellEscaped(textOut[i].out)
          /\ textOut[i].out = EscapedOnce(textArgs.s)
    /\ \A i \in Returns("generateICS") :
          \A k \in 1..Len(textOut[i].out) :
             (textOut[i].out[k].name \in FreeText) => WellEscaped(textOut[i].out[k].value)

C12_Witness ==
    /\ textCase = "escapeICS"
    /\ textArgs.s = <<BS, ",", ";", LF>>
    /\ Len(textOut) >= 1
    /\ textOut[1].out = <<BS, BS, BS, ",", BS, ";", BS, "n">>

\* C13: for every selections object S and flag b, PreviewHandler and
\* CalendarHandler accept the wrapped and the unwrapped body and read the
\* same game ids, league ids, team ids and tier ceiling from both; the
\* unwrapped body is read as hideScores = false.
C13_BothShapes ==
    /\ \A i \in Returns("selections") :
          /\ textOut[i].out.parsed.accepted
          /\ (textOut[i].out.shape = "unwrapped") => ~textOut[i].out.parsed.hideScores
    /\ \A i, j \in Returns("selections") :
          textOut[i].out.parsed.f = textOut[j].out.parsed.f

C13_Witness ==
    /\ textCase = "selections"
    /\ textArgs.b
    /\ Len(textOut) = 2
    /\ textOut[1].out.shape = "wrapped"
    /\ textOut[2].out.shape = "unwrapped"
    /\ textOut[1].out.handler # textOut[2].out.handler
    /\ textOut[1].out.parsed.f.games = {1, 2}
    /\ textOut[1].out.parsed.f.maxTier = 2

IsHash(h) == Len(h) = HashLen /\ \A i \in 1..Len(h) : h[i] \in 0..15

\* C15: the hash ExportHandler returns is 16 hexadecimal digits, bodies
\* that denote the same JSON object (any member order, any whitespace) get
\* the same hash, and the hash of the value_list of the row it stores is
\* the row's hashed_key.
C15_CanonicalHash ==
    /\ \A i \in Returns("export") :
          /\ IsHash(textOut[i].out.hash)
          /\ \A k \in 1..Len(textOut[i].out.rows) :
                /\ textOut[i].out.rows[k].hashed_key = textOut[i].out.hash
                /\ generateHash(textOut[i].out.rows[k].value_list)
                      = textOut[i].out.rows[k].hashed_key
    /\ \A i, j \in Returns("export") : textOut[i].out.hash = textOut[j].out.hash

C15_Witness ==
    /\ textCase = "export"
    /\ Len(textOut) = 2
    /\ Len(textOut[1].out.body.members) = 3
    /\ textOut[1].out.body.members # textOut[2].out.body.members
    /\ textOut[1].out.body.spaces # textOut[2].out.body.spaces
    /\ Len(textOut[1].out.rows) = 1

(***************************************************************************)
(* The life of a url_mappings row (checked under Spec).                    *)
(***************************************************************************)
C16_RowStep ==
    \A i \in 1..Len(url_mappings) :
       /\ Len(url_mappings') >= i
       /\ url_mappings'[i].hashed_key = url_mappings[i].hashed_key
       /\ url_mappings'[i].value_list = url_mappings[i].value_list
       /\ url_mappings'[i].created_at = url_mappings[i].created_at
       /\ (url_mappings'[i] # url_mappings[i]) =>
             \E p \in WProcs :
                /\ wloc[p].handler = "calendar"
                /\ wpc[p] = "cal_update" /\ wpc'[p] # "cal_update"
                /\ wloc[p].hash = url_mappings[i].hashed_key

\* C16: a url_mappings row is never deleted and its hashed_key, value_list
\* and created_at never change; access_count and accessed_at change only in
\* the access-count step of a CalendarHandler request for that hash.
C16_RowFrame == [][C16_RowStep]_vars

C16_Witness ==
    \E i \in 1..Len(url_mappings) :
       /\ url_mappings[i].access_count >= 1
       /\ url_mappings[i].accessed_at > url_mappings[i].created_at
       /\ \E p \in WProcs :
             /\ Finished(p, "export") /\ resp[p].status = 200
             /\ resp[p].body = url_mappings[i].hashed_key
       /\ \E p \in WProcs : Finished(p, "calendar")

\* the rows of ms that have a start time, in the order of ms
Scheduled(ms) == SelectSeq(ms, LAMBDA m : m.ExpectedStartTime.Valid)

\* the lines of out named name, in the order of out
NamedLines(out, name) == SelectSeq(out, LAMBDA l : l.name = name)

VCalendarHeader ==
    << Line("BEGIN", <<"VCALENDAR">>), Line("VERSION", <<"2.0">>),
       Line("PRODID", <<"-//EsportsCalendar//EN">>), Line("CALSCALE", <<"GREGORIAN">>),
       Line("X-WR-CALNAME", <<"Esports Calendar">>), Line("X-WR-TIMEZONE", <<"UTC">>) >>

\* the text between the header and the final line is a sequence of blocks,
\* each opened by BEGIN:VEVENT and closed by the next END:VEVENT
RECURSIVE Blocks(_, _)
Blocks(lines, open) ==
    IF lines = <<>> THEN ~open
    ELSE IF Head(lines).name = "BEGIN" THEN ~open /\ Blocks(Tail(lines), TRUE)
    ELSE IF Head(lines).name = "END" THEN open /\ Blocks(Tail(lines), FALSE)
    ELSE open /\ Blocks(Tail(lines), open)

\* C27: generateICS writes the VCALENDAR header first and END:VCALENDAR
\* last, also for the empty list, and between them one BEGIN:VEVENT ...
\* END:VEVENT block per match that has a start time, in input order, and
\* nothing for a match without one.
C27_OneEventPerMatch ==
    \A i \in Returns("generateICS") :
       LET out    == textOut[i].out
           ms     == Scheduled(textArgs.matches)
           events == SubSeq(out, Len(VCalendarHeader) + 1, Len(out) - 1)
           uids   == NamedLines(events, "UID")
       IN  /\ Len(out) >= Len(VCalendarHeader) + 1
           /\ SubSeq(out, 1, Len(VCalendarHeader)) = VCalendarHeader
           /\ out[Len(out)] = Line("END", <<"VCALENDAR">>)
           /\ Blocks(events, FALSE)
           /\ \A k \in 1..Len(events) :
                 (events[k].name \in {"BEGIN", "END"}) => (events[k].value = <<"VEVENT">>)
           /\ Len(NamedLines(events, "BEGIN")) = Len(ms)
           /\ Len(uids) = Len(ms)
           /\ \A k \in 1..Len(ms) :
                 uids[k].value = Itoa(ms[k].ID) \o <<"@">> \o textArgs.baseURL

C27_Witness ==
    /\ textCase = "generateICS"
    /\ Len(textOut) >= 1
    /\ Len(textArgs.matches) = 2
    /\ ~textArgs.matches[1].ExpectedStartTime.Valid
    /\ textArgs.matches[2].ExpectedStartTime.Valid
    /\ Len(NamedLines(textOut[1].out, "BEGIN")) = 2

C27_EmptyList ==
    /\ textCase = "generateICS"
    /\ textArgs.matches = <<>>
    /\ Len(textOut) >= 1
    /\ textOut[1].out = VCalendarHeader \o <<Line("END", <<"VCALENDAR">>)>>

C27_InOrder ==
    /\ textCase = "generateICS"
    /\ Len(textOut) >= 1
    /\ Len(textArgs.matches) = 2
    /\ textArgs.matches[1].ID > textArgs.matches[2].ID
    /\ Len(NamedLines(textOut[1].out, "UID")) = 2

\* the same rows with other team scores
Rescored(ms, s1, s2) ==
    [k \in 1..Len(ms) |-> [ms[k] EXCEPT !.Team1Score = s1, !.Team2Score = s2]]

OtherScores == {<<0, 0>>, <<0, 3>>, <<13, 7>>}

ScoreSuffix(match) ==
    <<" [">> \o Itoa(match.Team1Score) \o <<"-">> \o Itoa(match.Team2Score) \o <<"]">>

HasSuffix(s, suffix) ==
    /\ Len(s) >= Len(suffix)
    /\ SubSeq(s, Len(s) - Len(suffix) + 1, Len(s)) = suffix

\* C28: the SUMMARY of a match ends with the score [s1-s2] exactly when the
\* match is finished and hideScores is false.  With hideScores true the
\* text of a finished match shows [Finished] and no score, and the same
\* list with any other team scores renders to the same text.
C28_ScoresHidden ==
    \A i \in Returns("generateICS") :
       LET out       == textOut[i].out
           ms        == Scheduled(textArgs.matches)
           summaries == NamedLines(out, "SUMMARY")
           descs     == NamedLines(out, "DESCRIPTION")
       IN  /\ Len(summaries) = Len(ms)
           /\ Len(descs) = Len(ms)
           /\ \A k \in 1..Len(ms) :
                 /\ HasSuffix(summaries[k].value, ScoreSuffix(ms[k]))
                       <=> (ms[k].Finished /\ ~textArgs.hideScores)
                 /\ (" [Finished]" \in Range(descs[k].value))
                       <=> (ms[k].Finished /\ textArgs.hideScores)
                 /\ textArgs.hideScores =>
                       /\ " [" \notin Range(summaries[k].value)
                       /\ " [" \notin Range(descs[k].value)
           /\ textArgs.hideScores =>
                 \A s \in OtherScores :
                    generateICSLines(Rescored(textArgs.matches, s[1], s[2]),
                                     TRUE, textArgs.baseURL) = out

C28_Witness ==
    /\ textCase = "generateICS"
    /\ textArgs.hideScores
    /\ Len(textOut) >= 1
    /\ \E k \in 1..Len(textArgs.matches) :
          /\ textArgs.matches[k].Finished
          /\ textArgs.matches[k].ExpectedStartTime.Valid
          /\ textArgs.matches[k].Team1Score # textArgs.matches[k].Team2Score
    /\ \E k \in 1..Len(textOut[1].out) :
          /\ textOut[1].out[k].name = "DESCRIPTION"
          /\ " [Finished]" \in Range(textOut[1].out[k].value)

(***************************************************************************)
(* Properties of the shutdown (checked under SpecMain).                    *)
(***************************************************************************)
CleanupBegun == mpc \in {"cleanup", "cleanup_cache"} \/ dbPool = "closed"

C17_Order ==
    /\ CleanupBegun => (signalled /\ shutdownDone \in {"drained", "deadline"})
    /\ (cacheClient = "closed") => (dbPool = "closed")
    /\ (dbPool = "closed") => (mpc \in {"cleanup_cache", "exited"})

\* C17 as stated: Cleanup runs only after server.Shutdown returned, with the
\* requests drained or the grace period over, pool first and cache client
\* second, never before the signal; and after a signal Cleanup always runs.
C17_CleanupAfterSignal == []C17_Order /\ (signalled ~> (dbPool = "closed"))

\* C17 amended: the same, except that a server which fails to listen ends
\* the process through logger.Fatal, with no Cleanup, signal or not.
C17_CleanupUnlessFatal ==
    []C17_Order /\ (signalled ~> (dbPool = "closed" \/ listener = "failed"))

C17_Witness ==
    /\ mpc = "exited"
    /\ dbPool = "closed"
    /\ cacheClient = "closed"
    /\ shutdownDone = "deadline"
    /\ inflight > 0

(***************************************************************************)
(* The selection predicate of the three queries (checked under SpecText).  *)
(***************************************************************************)
TeamSelected(m, f) == m.team1 \in f.teams \/ m.team2 \in f.teams

TierOf(m) == IF m.tierValid THEN m.tier ELSE 0

\* the rows of the store a query looks at, by its time window
InWindow(m, query, t) ==
    /\ m.startValid
    /\ CASE query = "future"   -> m.start >= t
         [] query = "past"     -> m.start < t
         [] OTHER              -> m.start >= t - CalendarWindow

\* C20: a query returns a match only if its game is selected and one of its
\* teams is selected or its league is selected with a tier (null as 0) within
\* maxTier; unless the LIMIT cuts the result, every match in the window
\* whose game and one of whose teams are selected is returned, whatever its
\* tier.
C20_SelectionPredicate ==
    \A i \in Returns("queries") :
       LET out == textOut[i].out
           f   == textArgs.f
       IN  /\ \A k \in 1..Len(out.rows) :
                 LET m == ById(out.rows[k])
                 IN  /\ m.game \in f.games
                     /\ \/ TeamSelected(m, f)
                        \/ (m.league \in f.leagues /\ TierOf(m) <= f.maxTier)
           /\ (Len(out.rows) < out.limit) =>
                 \A m \in store :
                    (InWindow(m, out.query, textArgs.t) /\ m.game \in f.games
                     /\ TeamSelected(m, f))
                       => (m.id \in Range(out.rows))

C20_Witness ==
    /\ textCase = "queries"
    /\ Len(textOut) = 2
    /\ textOut[1].out.query = "calendar"
    /\ textOut[2].out.query = "past"
    /\ textArgs.f.maxTier = 1
    /\ \E k \in 1..Len(textOut[1].out.rows) :
          LET m == ById(textOut[1].out.rows[k])
          IN  TierOf(m) > 1 /\ TeamSelected(m, textArgs.f)
    /\ \E m \in store :
          /\ m.startValid /\ m.game \in textArgs.f.games
          /\ m.league \in textArgs.f.leagues /\ TierOf(m) > 1
          /\ m.id \notin Range(textOut[1].out.rows)

(***************************************************************************)
(* Properties of parseSelections (checked under SpecParse).                *)
(***************************************************************************)
\* the keys of a selections object that parse as 32-bit game ids
ValidKeys(selections) == {k \in DOMAIN selections : ParseInt(k).ok}

IntegersOf(entry, field) ==
    IF IsObj(entry) /\ field \in DOMAIN entry.obj /\ "arr" \in DOMAIN entry.obj[field]
    THEN LET a == entry.obj[field].arr
         IN  {a[i].num2 \div 2 :
                 i \in {j \in 1..Len(a) : "num2" \in DOMAIN a[j] /\ a[j].num2 % 2 = 0}}
    ELSE {}

\* C26: parseSelections skips a key that is not a 32-bit integer, with all
\* it holds; of a league or team array it keeps the elements that are
\* integers and skips every other element; with no valid game id the game,
\* league and team lists are empty.
C26_MalformedSkipped ==
    \A i \in Returns("parseSelections") :
       LET r == textOut[i].out
           S == textArgs.selections
       IN  /\ Range(r.gameIDs) = {ParseInt(k).n : k \in ValidKeys(S)}
           /\ Range(r.leagueIDs) = UNION {IntegersOf(S[k], "leagues") : k \in ValidKeys(S)}
           /\ Range(r.teamIDs) = UNION {IntegersOf(S[k], "teams") : k \in ValidKeys(S)}
           /\ (ValidKeys(S) = {}) =>
                 (r.gameIDs = <<>> /\ r.leagueIDs = <<>> /\ r.teamIDs = <<>>
                    /\ r.maxTier = 1)

=============================================================================
